---- MODULE Spec2Model ----
(***************************************************************************)
(* Model of the sensor-toolbox numerical core (src/src/lib.rs,             *)
(* src/src/gas_flux.rs): the temperature-corrected VWC quadratic, the      *)
(* two-pass OLS regression and the ideal-gas-law flux conversion.          *)
(*                                                                         *)
(* The code computes in f64.  TLC has 32-bit integers only, so f64 is      *)
(* modelled here bit for bit: a value is a record                          *)
(*   [k |-> "fin" | "inf" | "nan", s |-> sign, m |-> mantissa, e |-> exp]  *)
(* whose finite value is (-1)^s * m * 2^e, m a natural number of at most   *)
(* 53 bits held as a little-endian sequence of 14-bit limbs.  Every        *)
(* operation computes the exact result and rounds it once, to nearest,     *)
(* ties to even, with gradual underflow and overflow to infinity, as       *)
(* IEEE 754 binary64 does.  The one thing not modelled is the sign of      *)
(* zero (there is a single zero), which none of the modelled code can      *)
(* observe in a finite, non-NaN result other than as the value 0.          *)
(***************************************************************************)
EXTENDS Integers, Sequences, FiniteSets, TLC

(***************************************************************************)
(* Natural numbers of any size: little-endian limbs in base 2^14, with no  *)
(* most-significant zero limb; zero is the empty sequence.                 *)
(***************************************************************************)
LimbBits == 14
Base == 16384

Pow2(n) == 2 ^ n

Max(S) == CHOOSE i \in S : \A j \in S : j <= i

Limb(s, i) == IF i >= 1 /\ i <= Len(s) THEN s[i] ELSE 0

\* s without its most-significant zero limbs
BTrim(s) ==
    LET nz == {i \in 1..Len(s) : s[i] # 0}
    IN  IF nz = {} THEN <<>> ELSE SubSeq(s, 1, Max(nz))

\* for 0 <= n < Base^3
BFromInt(n) == BTrim(<<n % Base, (n \div Base) % Base, n \div (Base * Base)>>)

\* the number of bits of n, for 0 <= n < Base
BitLenSmall(n) == Cardinality({k \in 0..(LimbBits - 1) : Pow2(k) <= n})

BLen(a) == IF a = <<>> THEN 0 ELSE LimbBits * (Len(a) - 1) + BitLenSmall(a[Len(a)])

\* -1, 0 or 1 as a < b, a = b or a > b: the most significant differing limb decides
BCmp(a, b) ==
    IF Len(a) > Len(b) THEN 1
    ELSE IF Len(a) < Len(b) THEN -1
    ELSE LET D == {i \in 1..Len(a) : a[i] # b[i]}
         IN  IF D = {} THEN 0 ELSE IF a[Max(D)] > b[Max(D)] THEN 1 ELSE -1

\* a + b (limb sequences, trimmed or not): limb i receives a carry when some
\* lower limb j overflows and every limb between them is full
BAdd(a, b) ==
    LET n        == IF Len(a) > Len(b) THEN Len(a) ELSE Len(b)
        s(i)     == Limb(a, i) + Limb(b, i)
        carry(i) == IF \E j \in 1..(i - 1) :
                          s(j) >= Base /\ \A k \in (j + 1)..(i - 1) : s(k) = Base - 1
                    THEN 1 ELSE 0
    IN  BTrim([i \in 1..(n + 1) |-> (s(i) + carry(i)) % Base])

\* a - b, for a >= b: limb i lends when some lower limb j is short and every
\* limb between them is level
BSub(a, b) ==
    LET d(i)      == a[i] - Limb(b, i)
        borrow(i) == IF \E j \in 1..(i - 1) :
                           d(j) < 0 /\ \A k \in (j + 1)..(i - 1) : d(k) = 0
                     THEN 1 ELSE 0
    IN  BTrim([i \in 1..Len(a) |-> (d(i) - borrow(i) + Base) % Base])

\* a * k, for 0 <= k <= Base: the low halves of the limb products plus their
\* high halves one limb up
BMulSmall(a, k) ==
    IF k = 0 \/ a = <<>> THEN <<>>
    ELSE BAdd([i \in 1..Len(a) |-> (a[i] * k) % Base],
              <<0>> \o [i \in 1..Len(a) |-> (a[i] * k) \div Base])

ShiftLimbs(s, n) == IF s = <<>> THEN <<>> ELSE [i \in 1..n |-> 0] \o s

\* a times the limbs lo to hi of b, in their places
RECURSIVE BMulAt(_, _, _, _)
BMulAt(a, b, lo, hi) ==
    IF lo = hi THEN ShiftLimbs(BMulSmall(a, b[lo]), lo - 1)
    ELSE BAdd(BMulAt(a, b, lo, (lo + hi) \div 2), BMulAt(a, b, (lo + hi) \div 2 + 1, hi))

BMul(a, b) == IF a = <<>> \/ b = <<>> THEN <<>> ELSE BMulAt(a, b, 1, Len(b))

\* a * 2^n
BShl(a, n) == ShiftLimbs(BMulSmall(a, Pow2(n % LimbBits)), n \div LimbBits)

\* floor(a / 2^n)
BShr(a, n) ==
    LET q == n \div LimbBits
        r == n % LimbBits
        s == IF q >= Len(a) THEN <<>> ELSE SubSeq(a, q + 1, Len(a))
    IN  IF r = 0 THEN s
        ELSE BTrim([i \in 1..Len(s) |->
                      (s[i] \div Pow2(r)) + (Limb(s, i + 1) % Pow2(r)) * Pow2(LimbBits - r)])

\* bit i (from 0) of a
BBit(a, i) == (Limb(a, (i \div LimbBits) + 1) \div Pow2(i % LimbBits)) % 2

\* whether a mod 2^n is non-zero
BLowNonzero(a, n) ==
    LET q == n \div LimbBits
        r == n % LimbBits
    IN  \/ \E i \in 1..Len(a) : i <= q /\ a[i] # 0
        \/ Limb(a, q + 1) % Pow2(r) # 0

\* One quotient limb of rem / b (Knuth's algorithm D: an estimate from the two
\* top limbs, corrected downwards), for rem < b * Base and b's top limb >= Base/2.
RECURSIVE QDigit(_, _, _)
QDigit(rem, b, qhat) ==
    IF BCmp(BMulSmall(b, qhat), rem) > 0 THEN QDigit(rem, b, qhat - 1) ELSE qhat

Smaller(i, j) == IF i < j THEN i ELSE j
Larger(i, j) == IF i > j THEN i ELSE j

\* the estimate of the quotient limb of r1 / b from their top limbs
QEstimate(r1, b) ==
    Smaller(Base - 1, (Limb(r1, Len(b) + 1) * Base + Limb(r1, Len(b))) \div b[Len(b)])

\* Long division, one limb of a at a time from the top: rem is the remainder so
\* far (rem < b) and q the quotient limbs found so far; r1 is the remainder
\* with the next limb of a brought down and qd its quotient limb.
RECURSIVE BDivAt(_, _, _, _, _)
BDivStep(a, b, i, r1, q, qd) ==
    IF qd = 0 THEN BDivAt(a, b, i - 1, r1, <<0>> \o q)
    ELSE BDivAt(a, b, i - 1, BSub(r1, BMulSmall(b, qd)), <<qd>> \o q)

BDivDown(a, b, i, r1, q) == BDivStep(a, b, i, r1, q, QDigit(r1, b, QEstimate(r1, b)))

BDivAt(a, b, i, rem, q) ==
    IF i = 0 THEN [q |-> BTrim(q), r |-> rem]
    ELSE BDivDown(a, b, i, BTrim(<<a[i]>> \o rem), q)

\* the quotient and remainder of the scaled division, the remainder scaled back
BDivUnscale(d, sh) == [q |-> d.q, r |-> BShr(d.r, sh)]

\* A = a * 2^sh and B = b * 2^sh, B's top limb at least Base/2: the limbs of A
\* above the first quotient limb start the remainder
BDivScaled(a, A, B, sh) ==
    IF Len(A) < Len(B) THEN [q |-> <<>>, r |-> a]
    ELSE BDivUnscale(BDivAt(A, B, Len(A) - Len(B) + 1,
                            SubSeq(A, Len(A) - Len(B) + 2, Len(A)), <<>>), sh)

BDivShifted(a, b, sh) == BDivScaled(a, BShl(a, sh), BShl(b, sh), sh)

\* [q |-> floor(a / b), r |-> a mod b], for b > 0
BDivMod(a, b) == BDivShifted(a, b, LimbBits - BitLenSmall(b[Len(b)]))

\* floor(sqrt(a)) by Newton's iteration on integers, from an estimate x above the
\* root; y is the next iterate
RECURSIVE BSqrtFrom(_, _)
BSqrtNext(a, x, y) == IF BCmp(y, x) < 0 THEN BSqrtFrom(a, y) ELSE x

BSqrtFrom(a, x) == BSqrtNext(a, x, BShr(BAdd(x, BDivMod(a, x).q), 1))

BSqrt(a) == IF a = <<>> THEN <<>> ELSE BSqrtFrom(a, BShl(<<1>>, (BLen(a) + 1) \div 2))

RECURSIVE BPow10(_)
BSquareTimes(h, k) == BMulSmall(BMul(h, h), k)

BPow10(n) ==
    IF n = 0 THEN <<1>>
    ELSE BSquareTimes(BPow10(n \div 2), IF n % 2 = 0 THEN 1 ELSE 10)

(***************************************************************************)
(* f64 values and arithmetic.                                              *)
(***************************************************************************)
MantBits == 53
MinExp == -1074
MaxExp == 971

NaN == [k |-> "nan", s |-> 0, m |-> <<>>, e |-> 0]
Inf(s) == [k |-> "inf", s |-> s, m |-> <<>>, e |-> 0]
Zero == [k |-> "fin", s |-> 0, m |-> <<>>, e |-> 0]
\* 0.0 (s = 0) and -0.0 (s = 1)
SignedZero(s) == [k |-> "fin", s |-> s, m |-> <<>>, e |-> 0]

IsNaN(a) == a.k = "nan"
IsFinite(a) == a.k = "fin"
IsZero(a) == a.k = "fin" /\ a.m = <<>>

\* the f64 of sign s, mantissa q (at most MantBits bits) and exponent e
FPack(s, q, e) ==
    IF q = <<>> THEN SignedZero(s)
    ELSE IF e > MaxExp THEN Inf(s)
    ELSE [k |-> "fin", s |-> s, m |-> q, e |-> e]

\* a rounded mantissa of MantBits + 1 bits is halved
FRoundCarry(s, q, e) ==
    IF BLen(q) > MantBits THEN FPack(s, BShr(q, 1), e + 1) ELSE FPack(s, q, e)

\* q is the mantissa cut to its kept bits, guard the first bit cut off and rest
\* whether anything non-zero lies below it: to nearest, ties to even
FRoundUp(s, q, e, guard, rest) ==
    IF guard /\ (rest \/ Limb(q, 1) % 2 = 1) THEN FRoundCarry(s, BAdd(q, <<1>>), e)
    ELSE FPack(s, q, e)

\* M cut by sh bits (sh <= 0: nothing is cut)
FRoundBy(s, M, E, sticky, sh) ==
    IF sh <= 0 THEN FPack(s, BShl(M, -sh), E + sh)
    ELSE FRoundUp(s, BShr(M, sh), E + sh, BBit(M, sh - 1) = 1,
                  sticky \/ BLowNonzero(M, sh - 1))

\* (-1)^s * (M + a non-zero fraction if sticky) * 2^E, rounded to f64: M is cut
\* to MantBits bits, and further where the exponent would fall below MinExp
FRound(s, M, E, sticky) ==
    IF M = <<>> THEN SignedZero(s)
    ELSE FRoundBy(s, M, E, sticky, Larger(BLen(M) - MantBits, MinExp - E))

FNeg(a) == IF a.k = "nan" THEN a ELSE [a EXCEPT !.s = 1 - a.s]

FAbs(a) == IF a.k = "nan" THEN a ELSE [a EXCEPT !.s = 0]

\* the sum of sa * A * 2^E and sb * B * 2^E for opposite signs, c = BCmp(A, B);
\* an exact zero sum is 0.0 (rounding to nearest)
FAddOpposite(sa, sb, A, B, E, c) ==
    IF c = 0 THEN Zero
    ELSE IF c > 0 THEN FRound(sa, BSub(A, B), E, FALSE)
    ELSE FRound(sb, BSub(B, A), E, FALSE)

FAddAligned(sa, sb, A, B, E) ==
    IF sa = sb THEN FRound(sa, BAdd(A, B), E, FALSE)
    ELSE FAddOpposite(sa, sb, A, B, E, BCmp(A, B))

\* the sum of two finite non-zero values, hi.e >= lo.e: a value 120 or more
\* binary places below the other counts as a sticky bit
FAddFin(hi, lo) ==
    IF hi.e - lo.e >= 120 THEN FAddAligned(hi.s, lo.s, BShl(hi.m, 64), <<1>>, hi.e - 64)
    ELSE FAddAligned(hi.s, lo.s, BShl(hi.m, hi.e - lo.e), lo.m, lo.e)

FAdd(a, b) ==
    IF a.k = "nan" \/ b.k = "nan" THEN NaN
    ELSE IF a.k = "inf" THEN (IF b.k = "inf" /\ b.s # a.s THEN NaN ELSE a)
    ELSE IF b.k = "inf" THEN b
    ELSE IF IsZero(a) /\ IsZero(b) THEN SignedZero(a.s * b.s)
    ELSE IF IsZero(a) THEN b
    ELSE IF IsZero(b) THEN a
    ELSE FAddFin(IF a.e >= b.e THEN a ELSE b, IF a.e >= b.e THEN b ELSE a)

FSub(a, b) == FAdd(a, FNeg(b))

FMul(a, b) ==
    IF a.k = "nan" \/ b.k = "nan" THEN NaN
    ELSE IF a.k = "inf" \/ b.k = "inf"
    THEN (IF IsZero(a) \/ IsZero(b) THEN NaN ELSE Inf((a.s + b.s) % 2))
    ELSE IF IsZero(a) \/ IsZero(b) THEN SignedZero((a.s + b.s) % 2)
    ELSE FRound((a.s + b.s) % 2, BMul(a.m, b.m), a.e + b.e, FALSE)

\* the quotient d.q * 2^e, inexact when the remainder d.r is not zero
FDivRound(s, d, e) == FRound(s, d.q, e, d.r # <<>>)

\* num / den * 2^(e - sh) with the numerator scaled by 2^sh to give the
\* quotient MantBits + 2 bits or more
FDivBy(s, num, den, e, sh) == FDivRound(s, BDivMod(BShl(num, sh), den), e - sh)

FDiv(a, b) ==
    IF a.k = "nan" \/ b.k = "nan" THEN NaN
    ELSE IF a.k = "inf" THEN (IF b.k = "inf" THEN NaN ELSE Inf((a.s + b.s) % 2))
    ELSE IF b.k = "inf" THEN SignedZero((a.s + b.s) % 2)
    ELSE IF IsZero(b) THEN (IF IsZero(a) THEN NaN ELSE Inf((a.s + b.s) % 2))
    ELSE IF IsZero(a) THEN SignedZero((a.s + b.s) % 2)
    ELSE FDivBy((a.s + b.s) % 2, a.m, b.m, a.e - b.e, MantBits + 3 + BLen(b.m) - BLen(a.m))

\* R = floor(sqrt(N)), inexact when R * R is not N
FSqrtRound(N, R, e) == FRound(0, R, e, BMul(R, R) # N)

FSqrtOf(N, e) == FSqrtRound(N, BSqrt(N), e)

\* sqrt(m * 2^e) with m scaled by 2^sh, sh0 or sh0 + 1 to make e - sh even
FSqrtBy(a, sh0) ==
    IF (a.e - sh0) % 2 = 0 THEN FSqrtOf(BShl(a.m, sh0), (a.e - sh0) \div 2)
    ELSE FSqrtOf(BShl(a.m, sh0 + 1), (a.e - sh0 - 1) \div 2)

FSqrt(a) ==
    IF a.k = "nan" THEN NaN
    ELSE IF IsZero(a) THEN a
    ELSE IF a.s = 1 THEN NaN
    ELSE IF a.k = "inf" THEN a
    ELSE FSqrtBy(a, 2 * MantBits + 4 - BLen(a.m))

\* |a| < |b| for finite a, b
MagLt(a, b) ==
    IF IsZero(b) THEN FALSE
    ELSE IF IsZero(a) THEN TRUE
    ELSE IF a.e # b.e THEN a.e < b.e
    ELSE BCmp(a.m, b.m) < 0

\* a < b as f64 compares: false when either is NaN
FLt(a, b) ==
    IF a.k = "nan" \/ b.k = "nan" THEN FALSE
    ELSE IF a.k = "inf" THEN a.s = 1 /\ ~(b.k = "inf" /\ b.s = 1)
    ELSE IF b.k = "inf" THEN b.s = 0
    ELSE IF IsZero(a) THEN ~IsZero(b) /\ b.s = 0
    ELSE IF IsZero(b) THEN a.s = 1
    ELSE IF a.s # b.s THEN a.s = 1
    ELSE IF a.s = 0 THEN MagLt(a, b)
    ELSE MagLt(b, a)

\* a == b as f64 compares: false when either is NaN, and -0.0 == 0.0
FEq(a, b) == a.k # "nan" /\ b.k # "nan" /\ (a = b \/ (IsZero(a) /\ IsZero(b)))

FLe(a, b) == FLt(a, b) \/ FEq(a, b)

\* the f64 of an integer literal
FromInt(n) == FRound(IF n < 0 THEN 1 ELSE 0, BFromInt(IF n < 0 THEN -n ELSE n), 0, FALSE)

\* the f64 nearest to (-1)^s * M * 10^p
DecOf(s, M, p, den) ==
    IF p >= 0 THEN FRound(s, BMul(M, den), 0, FALSE)
    ELSE FDivBy(s, M, den, 0, MantBits + 3 + BLen(den) - BLen(M))

\* the f64 nearest to n * 10^p, as the compiler reads a decimal literal
Dec(n, p) ==
    IF n = 0 THEN Zero
    ELSE DecOf(IF n < 0 THEN 1 ELSE 0, BFromInt(IF n < 0 THEN -n ELSE n), p,
               BPow10(IF p < 0 THEN -p ELSE p))

\* 2^n as an f64
Pow2F(n) == FRound(0, <<1>>, n, FALSE)

(***************************************************************************)
(* lib.rs: soil types, coefficients and the VWC calculation.               *)
(***************************************************************************)
ALL == <<"Sand", "LoamySandA", "LoamySandB", "SandyLoamA", "SandyLoamB", "Loam",
         "SiltLoam", "Peat", "Water", "Universal", "SandTMS1", "LoamySandTMS1",
         "SiltLoamTMS1">>

SoilType == {ALL[i] : i \in 1..Len(ALL)}

\* the decimal literals of SoilType::coeffs, each as <<n, p>> for n * 10^p
CoeffTable ==
    [soil \in SoilType |->
       CASE soil = "Sand"          -> <<<<-300, -11>>, <<161192, -9>>, <<-1099565, -7>>>>
         [] soil = "LoamySandA"    -> <<<<-190, -10>>, <<265610, -9>>, <<-1540893, -7>>>>
         [] soil = "LoamySandB"    -> <<<<-230, -10>>, <<282473, -9>>, <<-1672112, -7>>>>
         [] soil = "SandyLoamA"    -> <<<<-380, -10>>, <<339449, -9>>, <<-2149218, -7>>>>
         [] soil = "SandyLoamB"    -> <<<<-900, -12>>, <<261847, -9>>, <<-1586183, -7>>>>
         [] soil = "Loam"          -> <<<<-510, -10>>, <<397984, -9>>, <<-2910464, -7>>>>
         [] soil = "SiltLoam"      -> <<<<170, -10>>, <<118119, -9>>, <<-1011685, -7>>>>
         [] soil = "Peat"          -> <<<<123, -9>>, <<-144644, -9>>, <<2029279, -7>>>>
         [] soil = "Water"         -> <<<<0, 0>>, <<306700, -9>>, <<-1349279, -7>>>>
         [] soil = "Universal"     -> <<<<-134, -10>>, <<249622, -9>>, <<-1578888, -7>>>>
         [] soil = "SandTMS1"      -> <<<<0, 0>>, <<260000, -9>>, <<-1330400, -7>>>>
         [] soil = "LoamySandTMS1" -> <<<<0, 0>>, <<330000, -9>>, <<-1938900, -7>>>>
         [] soil = "SiltLoamTMS1"  -> <<<<0, 0>>, <<380000, -9>>, <<-2942700, -7>>>>]

\* SoilType::coeffs: (a, b, c) as f64
coeffs(soil) == [i \in 1..3 |-> Dec(CoeffTable[soil][i][1], CoeffTable[soil][i][2])]

REF_T == FromInt(24)
ACOR_T == Dec(1911327, -6)
WCOR_T == Dec(64108, -5)

One == FromInt(1)

\* f64::clamp: NaN is returned as it is
clamp(v, lo, hi) == IF FLt(v, lo) THEN lo ELSE IF FLt(hi, v) THEN hi ELSE v

\* a * x * x + b * x + c, evaluated left to right as the code writes it
Quadratic(abc, x) == FAdd(FAdd(FMul(FMul(abc[1], x), x), FMul(abc[2], x)), abc[3])

\* "let cal_cor_factor = 0.0; let cal_cor_slope = 0.0;"
cal_cor_factor == Zero
cal_cor_slope == Zero

\* The steps of mc_calc_vwc, each given the locals computed before it.
\* Step 4 and the result: the values of the locals, and ret, what is returned
VwcClamped(vwc, tcor, corrected_raw, vwc_cor) ==
    [vwc |-> vwc, tcor |-> tcor, corrected_raw |-> corrected_raw,
     vwc_cor |-> vwc_cor, ret |-> clamp(vwc_cor, Zero, One)]

\* "let vwc_cor = a * corrected_raw * corrected_raw + b * corrected_raw + c"
VwcRecalculated(abc, vwc, tcor, corrected_raw) ==
    VwcClamped(vwc, tcor, corrected_raw, Quadratic(abc, corrected_raw))

\* "let corrected_raw = tcor + cal_cor_factor + cal_cor_slope * vwc"
VwcCalibrated(abc, vwc, tcor) ==
    VwcRecalculated(abc, vwc, tcor,
                    FAdd(FAdd(tcor, cal_cor_factor), FMul(cal_cor_slope, vwc)))

\* the correction taken from temp_value - REF_T
VwcTempCorrected_Reversed(abc, raw_value, temp_value, vwc) ==
    VwcCalibrated(abc, vwc,
                  IF IsNaN(temp_value) THEN raw_value
                  ELSE FAdd(raw_value,
                            FMul(FSub(temp_value, REF_T),
                                 FAdd(ACOR_T, FMul(FSub(WCOR_T, ACOR_T), vwc)))))

\* Step 2: "let dcor_t = WCOR_T - ACOR_T" and tcor
VwcTempCorrected(abc, raw_value, temp_value, vwc) ==
    VwcCalibrated(abc, vwc,
                  IF IsNaN(temp_value) THEN raw_value
                  ELSE FAdd(raw_value,
                            FMul(FSub(REF_T, temp_value),
                                 FAdd(ACOR_T, FMul(FSub(WCOR_T, ACOR_T), vwc)))))

\* Step 1: "let vwc = a * raw_value * raw_value + b * raw_value + c"
VwcInitial(abc, raw_value, temp_value) ==
    VwcTempCorrected(abc, raw_value, temp_value, Quadratic(abc, raw_value))

\* mc_calc_vwc, with the values of its local variables; ret is what it returns
mc_calc_vwc(raw_value, temp_value, soil) == VwcInitial(coeffs(soil), raw_value, temp_value)

(***************************************************************************)
(* gas_flux.rs: the regression and the flux conversion.                    *)
(***************************************************************************)
R_GAS == Dec(8314, -3)

\* the epsilon of f32 in place of that of f64
EPSILON_f32 == Pow2F(-23)

\* f64::EPSILON = 2^-52
EPSILON == Pow2F(-52)

\* a panic: the call returns nothing
Panic(msg) == [k |-> "panic", msg |-> msg]

\* iter().sum::<f64>(): the elements added in order to -0.0, the neutral
\* element of the addition
RECURSIVE SumFrom(_, _, _)
SumFrom(v, i, acc) == IF i > Len(v) THEN acc ELSE SumFrom(v, i + 1, FAdd(acc, v[i]))

Sum(v) == SumFrom(v, 1, SignedZero(1))

\* the loop of linear_regression from index i on, with the sums so far; dx and
\* dy are the deviations of element i
RECURSIVE SsLoop(_, _, _, _, _, _)
SsAdd(x, y, x_mean, y_mean, i, acc, dx, dy) ==
    SsLoop(x, y, x_mean, y_mean, i + 1,
           [ss_xy |-> FAdd(acc.ss_xy, FMul(dx, dy)),
            ss_xx |-> FAdd(acc.ss_xx, FMul(dx, dx)),
            ss_yy |-> FAdd(acc.ss_yy, FMul(dy, dy))])

SsLoop(x, y, x_mean, y_mean, i, acc) ==
    IF i > Len(x) THEN acc
    ELSE SsAdd(x, y, x_mean, y_mean, i, acc, FSub(x[i], x_mean), FSub(y[i], y_mean))

\* the slope with the quotient upside down
Slope_Unguarded(ss_xy, ss_xx) == FDiv(ss_xy, ss_xx)
Slope_Swapped(ss_xy, ss_xx) ==
    IF FLt(FAbs(ss_xx), EPSILON) THEN Zero ELSE FDiv(ss_xx, ss_xy)

\* "let slope = if ss_xx.abs() < f64::EPSILON { 0.0 } else { ss_xy / ss_xx }"
Slope(ss_xy, ss_xx) ==
    IF FLt(FAbs(ss_xx), EPSILON) THEN Zero ELSE FDiv(ss_xy, ss_xx)

\* "r * r"
RSquared(r) == FMul(r, r)

\* "let r2 = if ss_xx.abs() < EPSILON || ss_yy.abs() < EPSILON { 0.0 }
\*           else { let r = ss_xy / (ss_xx * ss_yy).sqrt(); r * r }"
R2(ss_xy, ss_xx, ss_yy) ==
    IF FLt(FAbs(ss_xx), EPSILON) \/ FLt(FAbs(ss_yy), EPSILON) THEN Zero
    ELSE RSquared(FDiv(ss_xy, FSqrt(FMul(ss_xx, ss_yy))))

\* the returned pair (slope, r2) with the locals they come from, and whether the
\* code divided by ss_xx and by sqrt(ss_xx * ss_yy)
RegressionOf(x_mean, y_mean, ss) ==
    [k |-> "ok", x_mean |-> x_mean, y_mean |-> y_mean,
     ss_xy |-> ss.ss_xy, ss_xx |-> ss.ss_xx, ss_yy |-> ss.ss_yy,
     slope |-> Slope(ss.ss_xy, ss.ss_xx),
     r2 |-> R2(ss.ss_xy, ss.ss_xx, ss.ss_yy),
     divided_by_ss_xx |-> ~FLt(FAbs(ss.ss_xx), EPSILON),
     divided_by_sqrt |-> ~(FLt(FAbs(ss.ss_xx), EPSILON) \/ FLt(FAbs(ss.ss_yy), EPSILON))]

\* the sums of the deviations about the two means
RegressionAbout(x, y, x_mean, y_mean) ==
    RegressionOf(x_mean, y_mean,
                 SsLoop(x, y, x_mean, y_mean, 1,
                        [ss_xy |-> Zero, ss_xx |-> Zero, ss_yy |-> Zero]))

\* linear_regression: n = x.len(), the means are the sums of ALL elements over
\* n; reading y[i] past the end of y panics
linear_regression(x, y) ==
    IF Len(y) < Len(x) THEN Panic("index out of bounds")
    ELSE RegressionAbout(x, y, FDiv(Sum(x), FromInt(Len(x))), FDiv(Sum(y), FromInt(Len(x))))

\* mean of a series as the code writes it: sum / len, so 0/0 = NaN when empty
Mean_First(v) == IF Len(v) = 0 THEN NaN ELSE v[1]
Mean(v) == FDiv(Sum(v), FromInt(Len(v)))

\* co2_ppm.iter().map(|&v| v * 1e-6).collect()
Scale_Unscaled(v, f) == v
Scale(v, f) == [i \in 1..Len(v) |-> FMul(v[i], f)]

\* the GasFluxResult, with the locals it is computed from; a panicking
\* regression makes the whole call panic
GasFluxResult(t_k, p_pa, pv_art, reg_co2, reg_ch4, reg_h2o) ==
    IF reg_co2.k = "panic" THEN reg_co2
    ELSE IF reg_ch4.k = "panic" THEN reg_ch4
    ELSE IF reg_h2o.k = "panic" THEN reg_h2o
    ELSE [k |-> "ok", t_k |-> t_k, p_pa |-> p_pa, pv_art |-> pv_art,
          slope_co2 |-> reg_co2.slope,
          slope_ch4_raw |-> reg_ch4.slope,
          slope_h2o_raw |-> reg_h2o.slope,
          flux_co2_umol_m2_s |->
              FMul(FMul(reg_co2.slope, pv_art), FromInt(1000000)),
          flux_ch4_nmol_m2_s |->
              FMul(FMul(FMul(reg_ch4.slope, Dec(1, -9)), pv_art), FromInt(1000000000)),
          flux_h2o_umol_m2_s |->
              FMul(FMul(FMul(reg_h2o.slope, Dec(1, -3)), pv_art), FromInt(1000000)),
          r2_co2 |-> reg_co2.r2, r2_ch4 |-> reg_ch4.r2, r2_h2o |-> reg_h2o.r2]

\* the three regressions against the same timestamps: CO2 scaled to mol/mol,
\* CH4 and H2O on their raw units
FluxRegressions(timestamps_s, co2_ppm, ch4_ppb, h2o_mmol_mol, t_k, p_pa, pv_art) ==
    GasFluxResult(t_k, p_pa, pv_art,
                  linear_regression(timestamps_s, Scale(co2_ppm, Dec(1, -6))),
                  linear_regression(timestamps_s, ch4_ppb),
                  linear_regression(timestamps_s, h2o_mmol_mol))

\* pv_art with the area over the volume
FluxScaled_AreaOverVolume(timestamps_s, co2_ppm, ch4_ppb, h2o_mmol_mol, t_k, p_pa, total_volume_m3, chamber_area_m2) ==
    FluxRegressions(timestamps_s, co2_ppm, ch4_ppb, h2o_mmol_mol, t_k, p_pa,
                    FMul(FDiv(p_pa, FMul(R_GAS, t_k)),
                         FDiv(chamber_area_m2, total_volume_m3)))

\* "let pv_art = (p_pa / (R_GAS * t_k)) * (total_volume_m3 / chamber_area_m2)"
FluxScaled(timestamps_s, co2_ppm, ch4_ppb, h2o_mmol_mol, t_k, p_pa, total_volume_m3, chamber_area_m2) ==
    FluxRegressions(timestamps_s, co2_ppm, ch4_ppb, h2o_mmol_mol, t_k, p_pa,
                    FMul(FDiv(p_pa, FMul(R_GAS, t_k)),
                         FDiv(total_volume_m3, chamber_area_m2)))

\* the H2O regression reads the CH4 series
compute_gas_flux_CrossWired(timestamps_s, co2_ppm, ch4_ppb, h2o_mmol_mol, chamber_temp_c, chamber_pressure_kpa, total_volume_m3, chamber_area_m2) ==
    IF Len(timestamps_s) = 0 THEN Panic("timestamps must not be empty")
    ELSE FluxScaled(timestamps_s, co2_ppm, ch4_ppb, ch4_ppb,
                    FAdd(Mean(chamber_temp_c), Dec(27315, -2)),
                    FMul(Mean(chamber_pressure_kpa), FromInt(1000)),
                    total_volume_m3, chamber_area_m2)
\* compute_gas_flux: the assert, then t_k and p_pa from the means of the
\* temperature and pressure series
compute_gas_flux(timestamps_s, co2_ppm, ch4_ppb, h2o_mmol_mol, chamber_temp_c, chamber_pressure_kpa, total_volume_m3, chamber_area_m2) ==
    IF Len(timestamps_s) = 0 THEN Panic("timestamps must not be empty")
    ELSE FluxScaled(timestamps_s, co2_ppm, ch4_ppb, h2o_mmol_mol,
                    FAdd(Mean(chamber_temp_c), Dec(27315, -2)),
                    FMul(Mean(chamber_pressure_kpa), FromInt(1000)),
                    total_volume_m3, chamber_area_m2)

(***************************************************************************)
(* lib.rs: soil-type names and their resolution from a string.  A string   *)
(* is the sequence of its characters, each character the number of its     *)
(* Unicode scalar value.                                                   *)
(***************************************************************************)
\* the string of a literal written as its characters, which are among the
\* printable ASCII characters U+0020 to U+007E (U+0022, U+005C and U+0060 are
\* written by their names)
Str(chars) ==
    LET Printable ==
            <<" ", "!", "quote", "#", "$", "%", "&", "'", "(", ")", "*", "+", ",", "-", ".", "/",
              "0", "1", "2", "3", "4", "5", "6", "7", "8", "9", ":", ";", "<", "=", ">", "?",
              "@", "A", "B", "C", "D", "E", "F", "G", "H", "I", "J", "K", "L", "M", "N", "O",
              "P", "Q", "R", "S", "T", "U", "V", "W", "X", "Y", "Z", "[", "backslash", "]", "^", "_",
              "backtick", "a", "b", "c", "d", "e", "f", "g", "h", "i", "j", "k", "l", "m", "n", "o",
              "p", "q", "r", "s", "t", "u", "v", "w", "x", "y", "z", "{", "|", "}", "~">>
    IN  [i \in 1..Len(chars) |-> 31 + CHOOSE n \in 1..Len(Printable) : Printable[n] = chars[i]]

\* SoilType::as_str
as_str ==
    [Sand |-> Str(<<"s", "a", "n", "d">>),
     LoamySandA |-> Str(<<"l", "o", "a", "m", "y", "s", "a", "n", "d", "a">>),
     LoamySandB |-> Str(<<"l", "o", "a", "m", "y", "s", "a", "n", "d", "b">>),
     SandyLoamA |-> Str(<<"s", "a", "n", "d", "y", "l", "o", "a", "m", "a">>),
     SandyLoamB |-> Str(<<"s", "a", "n", "d", "y", "l", "o", "a", "m", "b">>),
     Loam |-> Str(<<"l", "o", "a", "m">>),
     SiltLoam |-> Str(<<"s", "i", "l", "t", "l", "o", "a", "m">>),
     Peat |-> Str(<<"p", "e", "a", "t">>),
     Water |-> Str(<<"w", "a", "t", "e", "r">>),
     Universal |-> Str(<<"u", "n", "i", "v", "e", "r", "s", "a", "l">>),
     SandTMS1 |-> Str(<<"s", "a", "n", "d", "t", "m", "s", "1">>),
     LoamySandTMS1 |-> Str(<<"l", "o", "a", "m", "y", "s", "a", "n", "d", "t", "m", "s", "1">>),
     SiltLoamTMS1 |-> Str(<<"s", "i", "l", "t", "l", "o", "a", "m", "t", "m", "s", "1">>)]

\* the name field of From<SoilType> for SoilTypeModel
ReadableName ==
    [Sand |-> Str(<<"S", "a", "n", "d">>),
     LoamySandA |-> Str(<<"L", "o", "a", "m", "y", " ", "S", "a", "n", "d", " ", "A">>),
     LoamySandB |-> Str(<<"L", "o", "a", "m", "y", " ", "S", "a", "n", "d", " ", "B">>),
     SandyLoamA |-> Str(<<"S", "a", "n", "d", "y", " ", "L", "o", "a", "m", " ", "A">>),
     SandyLoamB |-> Str(<<"S", "a", "n", "d", "y", " ", "L", "o", "a", "m", " ", "B">>),
     Loam |-> Str(<<"L", "o", "a", "m">>),
     SiltLoam |-> Str(<<"S", "i", "l", "t", " ", "L", "o", "a", "m">>),
     Peat |-> Str(<<"P", "e", "a", "t">>),
     Water |-> Str(<<"W", "a", "t", "e", "r">>),
     Universal |-> Str(<<"U", "n", "i", "v", "e", "r", "s", "a", "l">>),
     SandTMS1 |-> Str(<<"S", "a", "n", "d", " ", "T", "M", "S", "1">>),
     LoamySandTMS1 |-> Str(<<"L", "o", "a", "m", "y", " ", "S", "a", "n", "d", " ", "T", "M", "S", "1">>),
     SiltLoamTMS1 |-> Str(<<"S", "i", "l", "t", " ", "L", "o", "a", "m", " ", "T", "M", "S", "1">>)]

\* the machine_name field of From<SoilType> for SoilTypeModel
MachineName ==
    [Sand |-> Str(<<"s", "a", "n", "d">>),
     LoamySandA |-> Str(<<"l", "o", "a", "m", "y", "s", "a", "n", "d", "a">>),
     LoamySandB |-> Str(<<"l", "o", "a", "m", "y", "s", "a", "n", "d", "b">>),
     SandyLoamA |-> Str(<<"s", "a", "n", "d", "y", "l", "o", "a", "m", "a">>),
     SandyLoamB |-> Str(<<"s", "a", "n", "d", "y", "l", "o", "a", "m", "b">>),
     Loam |-> Str(<<"l", "o", "a", "m">>),
     SiltLoam |-> Str(<<"s", "i", "l", "t", "l", "o", "a", "m">>),
     Peat |-> Str(<<"p", "e", "a", "t">>),
     Water |-> Str(<<"w", "a", "t", "e", "r">>),
     Universal |-> Str(<<"u", "n", "i", "v", "e", "r", "s", "a", "l">>),
     SandTMS1 |-> Str(<<"s", "a", "n", "d", "t", "m", "s", "1">>),
     LoamySandTMS1 |-> Str(<<"l", "o", "a", "m", "y", "s", "a", "n", "d", "t", "m", "s", "1">>),
     SiltLoamTMS1 |-> Str(<<"s", "i", "l", "t", "l", "o", "a", "m", "t", "m", "s", "1">>)]

\* From<SoilType> for SoilTypeModel
SoilTypeModel_from(soil) ==
    [id |-> soil, name |-> ReadableName[soil], machine_name |-> MachineName[soil]]

Ok(v) == [k |-> "Ok", v |-> v]
Err(e) == [k |-> "Err", e |-> e]

\* the arms of loamysanda and loamysandb lead to each other's soil type
MatchArms_Crossed ==
    [Sand |-> Str(<<"s", "a", "n", "d">>),
     LoamySandB |-> Str(<<"l", "o", "a", "m", "y", "s", "a", "n", "d", "a">>),
     LoamySandA |-> Str(<<"l", "o", "a", "m", "y", "s", "a", "n", "d", "b">>),
     SandyLoamA |-> Str(<<"s", "a", "n", "d", "y", "l", "o", "a", "m", "a">>),
     SandyLoamB |-> Str(<<"s", "a", "n", "d", "y", "l", "o", "a", "m", "b">>),
     Loam |-> Str(<<"l", "o", "a", "m">>),
     SiltLoam |-> Str(<<"s", "i", "l", "t", "l", "o", "a", "m">>),
     Peat |-> Str(<<"p", "e", "a", "t">>),
     Water |-> Str(<<"w", "a", "t", "e", "r">>),
     Universal |-> Str(<<"u", "n", "i", "v", "e", "r", "s", "a", "l">>),
     SandTMS1 |-> Str(<<"s", "a", "n", "d", "t", "m", "s", "1">>),
     LoamySandTMS1 |-> Str(<<"l", "o", "a", "m", "y", "s", "a", "n", "d", "t", "m", "s", "1">>),
     SiltLoamTMS1 |-> Str(<<"s", "i", "l", "t", "l", "o", "a", "m", "t", "m", "s", "1">>)]

\* the string literals the match of try_from compares with
MatchArms ==
    [Sand |-> Str(<<"s", "a", "n", "d">>),
     LoamySandA |-> Str(<<"l", "o", "a", "m", "y", "s", "a", "n", "d", "a">>),
     LoamySandB |-> Str(<<"l", "o", "a", "m", "y", "s", "a", "n", "d", "b">>),
     SandyLoamA |-> Str(<<"s", "a", "n", "d", "y", "l", "o", "a", "m", "a">>),
     SandyLoamB |-> Str(<<"s", "a", "n", "d", "y", "l", "o", "a", "m", "b">>),
     Loam |-> Str(<<"l", "o", "a", "m">>),
     SiltLoam |-> Str(<<"s", "i", "l", "t", "l", "o", "a", "m">>),
     Peat |-> Str(<<"p", "e", "a", "t">>),
     Water |-> Str(<<"w", "a", "t", "e", "r">>),
     Universal |-> Str(<<"u", "n", "i", "v", "e", "r", "s", "a", "l">>),
     SandTMS1 |-> Str(<<"s", "a", "n", "d", "t", "m", "s", "1">>),
     LoamySandTMS1 |-> Str(<<"l", "o", "a", "m", "y", "s", "a", "n", "d", "t", "m", "s", "1">>),
     SiltLoamTMS1 |-> Str(<<"s", "i", "l", "t", "l", "o", "a", "m", "t", "m", "s", "1">>)]

UnknownSoilType == Str(<<"U", "n", "k", "n", "o", "w", "n", " ", "s", "o", "i", "l", " ", "t", "y", "p", "e", ":", " ">>)

\* "match s.to_lowercase().as_str()" takes the arm of the literal arm, a string
\* of ASCII small letters and digits.  to_lowercase maps the characters of s
\* one by one, and the characters that map to an ASCII character c are c
\* itself, the ASCII capital of a letter c, and the Kelvin sign U+212A for k
\* (U+0130 maps to i followed by U+0307, and every other character to
\* characters outside ASCII).
LowercaseIs(s, arm) ==
    /\ Len(s) = Len(arm)
    /\ \A i \in 1..Len(s) :
          \/ s[i] = arm[i]
          \/ arm[i] \in 97..122 /\ s[i] = arm[i] - 32
          \/ arm[i] = 107 /\ s[i] = 8490

\* TryFrom<&str> for SoilTypeModel
try_from_EchoLowercased(s) ==
    IF \E soil \in SoilType : LowercaseIs(s, MatchArms[soil])
    THEN Ok(SoilTypeModel_from(CHOOSE soil \in SoilType : LowercaseIs(s, MatchArms[soil])))
    ELSE Err(UnknownSoilType \o [i \in 1..Len(s) |-> IF s[i] \in 65..90 THEN s[i] + 32 ELSE s[i]])
try_from(s) ==
    IF \E soil \in SoilType : LowercaseIs(s, MatchArms[soil])
    THEN Ok(SoilTypeModel_from(CHOOSE soil \in SoilType : LowercaseIs(s, MatchArms[soil])))
    ELSE Err(UnknownSoilType \o s)

\* "args[2].as_str().try_into()" into a SoilType: lib.rs defines no conversion
\* from a string to SoilType, so this one follows the specification's contract
\* of the string-to-enumeration lookup: case-insensitive, the readable or the
\* machine name, and otherwise an "unknown soil type" error carrying the string
SoilType_try_from(s) ==
    LET Small(name) == [i \in 1..Len(name) |-> IF name[i] \in 65..90 THEN name[i] + 32 ELSE name[i]]
        Names(soil) == LowercaseIs(s, as_str[soil]) \/ LowercaseIs(s, Small(ReadableName[soil]))
    IN  IF \E soil \in SoilType : Names(soil)
        THEN Ok(CHOOSE soil \in SoilType : Names(soil))
        ELSE Err(UnknownSoilType \o s)

\* print_usage: the lines it prints, each a text followed by an argument
print_usage ==
    <<[text |-> "Usage: soil-sensor-toolbox <input_file> <soil_type>", arg |-> <<>>],
      [text |-> "", arg |-> <<>>],
      [text |-> "Available soil types:", arg |-> <<>>]>>
    \o [i \in 1..Len(ALL) |-> [text |-> "  ", arg |-> as_str[ALL[i]]]]
    \o <<[text |-> "", arg |-> <<>>],
         [text |-> "Example:", arg |-> <<>>],
         [text |-> "  soil-sensor-toolbox data.csv universal", arg |-> <<>>],
         [text |-> "  soil-sensor-toolbox data.csv peat", arg |-> <<>>]>>

\* the match of process_args on the converted args[2]: the pair, or
\* "Error: {e}" on stderr, an empty line and the usage on stdout, and exit(1)
ProcessArgsResult(input_file, r) ==
    IF r.k = "Ok"
    THEN [k |-> "Ok", input_file |-> input_file, soil_type |-> r.v,
          stderr |-> <<>>, stdout |-> <<>>]
    ELSE [k |-> "exit", code |-> 1, stderr |-> Str(<<"E", "r", "r", "o", "r", ":", " ">>) \o r.e,
          stdout |-> <<[text |-> "", arg |-> <<>>]>> \o print_usage]

\* process_args: args[0] is the program's name, args[1] the input path and
\* args[2] the soil type
process_args(args) ==
    IF Len(args) # 3 THEN Err("Invalid number of arguments")
    ELSE ProcessArgsResult(args[2], SoilType_try_from(args[3]))

(***************************************************************************)
(* lib.rs: process_file, and main.rs: main.  A row of the input is the     *)
(* sequence of its fields, and a field is its text, a string.              *)
(***************************************************************************)
\* the number of ASCII digits s begins with, among its first max characters
DigitRun(s, max) ==
    CHOOSE n \in 0..Smaller(Len(s), max) :
        /\ \A j \in 1..n : s[j] \in 48..57
        /\ n = Smaller(Len(s), max) \/ s[n + 1] \notin 48..57

\* the number that the digits of s from index lo to index hi write: up to
\* four digits at once, and otherwise the upper half of the digits times its
\* power of ten, plus the lower half
RECURSIVE BFromDigits(_, _, _)
BFromDigits(s, lo, hi) ==
    IF hi - lo < 4
    THEN LET digit(i) == IF i >= lo THEN s[i] - 48 ELSE 0
         IN  BFromInt(digit(hi - 3) * 1000 + digit(hi - 2) * 100 + digit(hi - 1) * 10 + digit(hi))
    ELSE BAdd(BMul(BFromDigits(s, lo, (lo + hi) \div 2), BPow10(hi - (lo + hi) \div 2)),
              BFromDigits(s, (lo + hi) \div 2 + 1, hi))

\* parse_scientific: the exponent that the digits of s from index i on write;
\* it grows no further once it has reached 0x10000
RECURSIVE ExponentFrom(_, _, _)
ExponentFrom(s, i, acc) ==
    IF i > Len(s) THEN acc
    ELSE ExponentFrom(s, i + 1, IF acc < 65536 THEN 10 * acc + (s[i] - 48) ELSE acc)

\* the f64 nearest to (-1)^sign * M * 10^p, where M is written with n digits:
\* infinite from 10^310 on and zero below 10^-325, which is decided from the
\* lengths of M before the power of ten is computed
DecimalValue(sign, M, n, p) ==
    IF M = <<>> THEN SignedZero(sign)
    ELSE IF p + ((BLen(M) - 1) * 3) \div 10 > 309 THEN Inf(sign)
    ELSE IF n + p < -324 THEN SignedZero(sign)
    ELSE IF p >= 0 THEN FRound(sign, BMul(M, BPow10(p)), 0, FALSE)
    ELSE FDivBy(sign, M, BPow10(-p), 0,
                Larger(0, MantBits + 3 + BLen(BPow10(-p)) - BLen(M)))

\* parse_inf_nan: "nan", "inf" or "infinity" in any letter case
parse_inf_nan(sign, t) ==
    LET lower == [i \in 1..Len(t) |-> IF t[i] \in 65..90 THEN t[i] + 32 ELSE t[i]]
    IN  IF lower \in {Str(<<"i", "n", "f">>), Str(<<"i", "n", "f", "i", "n", "i", "t", "y">>)}
        THEN Ok(Inf(sign))
        ELSE IF lower = Str(<<"n", "a", "n">>) THEN Ok(NaN)
        ELSE Err("invalid float literal")

\* parse_scientific: the exponent that t writes from index i on, after its
\* "e" or "E": an optional sign and digits to the end of the text, at least
\* one
parse_scientific(t, i) ==
    LET signed == i <= Len(t) /\ t[i] \in {43, 45}
        digits == SubSeq(t, IF signed THEN i + 1 ELSE i, Len(t))
    IN  IF digits = <<>> \/ DigitRun(digits, Len(digits)) # Len(digits)
        THEN Err("invalid float literal")
        ELSE Ok((IF signed /\ t[i] = 45 THEN -1 ELSE 1) * ExponentFrom(digits, 1, 0))

\* parse_number on the text t after its sign, with a digits before the point
\* and b digits after it, which end at index end: digits, a point or both, at
\* least one digit, then an exponent or nothing; a text that is no such
\* number may still be an infinity or a NaN
parse_number(sign, t, a, b, end) ==
    LET exponent == IF end = Len(t) THEN Ok(0)
                    ELSE IF t[end + 1] \in {69, 101} THEN parse_scientific(t, end + 2)
                    ELSE Err("invalid float literal")
    IN  IF a + b = 0 THEN parse_inf_nan(sign, t)
        ELSE IF exponent.k = "Err" THEN exponent
        ELSE Ok(DecimalValue(sign,
                             BFromDigits(SubSeq(t, 1, a) \o SubSeq(t, a + 2, a + 1 + b), 1, a + b),
                             a + b, exponent.v - b))

\* <f64 as FromStr>::from_str on the text of a field (dec2flt): t is the
\* text after its sign, a the number of digits t begins with and b the
\* number of digits after the point, if a point follows
parse_f64(field) ==
    LET t == IF field # <<>> /\ field[1] \in {43, 45} THEN Tail(field) ELSE field
        a == DigitRun(t, Len(t))
        point == a < Len(t) /\ t[a + 1] = 46
        b == IF point THEN DigitRun(SubSeq(t, a + 2, Len(t)), Len(t)) ELSE 0
    IN  IF field = <<>> THEN Err("cannot parse float from empty string")
        ELSE IF t = <<>> THEN Err("invalid float literal")
        ELSE parse_number(IF field[1] = 45 THEN 1 ELSE 0, t, a, b,
                          IF point THEN a + 1 + b ELSE a)

\* RawRecord from a row whose fields temp and raw read as given: the first
\* field that is missing or does not parse is the error, and fields after
\* the ninth are not read
RawRecord(row, temp, raw) ==
    IF Len(row) < 4 THEN Err("invalid length")
    ELSE IF temp.k = "Err" THEN temp
    ELSE IF Len(row) < 7 THEN Err("invalid length")
    ELSE IF raw.k = "Err" THEN raw
    ELSE IF Len(row) < 9 THEN Err("invalid length")
    ELSE Ok([datetime |-> row[2], temp |-> temp.v, raw |-> raw.v])

\* rdr.deserialize() into RawRecord, field after field: index 1 is datetime, a
\* String, index 3 is temp and index 6 is raw, both f64, the other six are
\* Strings
deserialize(row) ==
    RawRecord(row, parse_f64(IF Len(row) < 4 THEN <<>> ELSE row[4]),
              parse_f64(IF Len(row) < 7 THEN <<>> ELSE row[7]))

\* the days of a month; February has 29 in a leap year
DaysInMonth(year, month) ==
    IF month = 2
    THEN (IF (year % 4 = 0 /\ year % 100 # 0) \/ year % 400 = 0 THEN 29 ELSE 28)
    ELSE IF month \in {4, 6, 9, 11} THEN 30 ELSE 31

\* str::trim_start: s without the white space it begins with (the characters
\* with the property White_Space)
trim_start(s) ==
    LET White_Space == {9, 10, 11, 12, 13, 32, 133, 160, 5760, 8232, 8233, 8239, 8287, 12288}
                           \cup 8192..8202
    IN  SubSeq(s, CHOOSE i \in 1..(Len(s) + 1) :
                      /\ \A j \in 1..(i - 1) : s[j] \in White_Space
                      /\ i = Len(s) + 1 \/ s[i] \notin White_Space,
               Len(s))

\* scan::number(s, 1, max): the number written by the digits s begins with,
\* at most max of them, and the rest of s; the number is an i64
number(s, max) ==
    IF s = <<>> THEN Err("premature end of input")
    ELSE IF DigitRun(s, max) = 0 THEN Err("input contains invalid characters")
    ELSE IF BLen(BFromDigits(s, 1, DigitRun(s, max))) > 63 THEN Err("input is out of range")
    ELSE [k |-> "Ok", v |-> BFromDigits(s, 1, DigitRun(s, max)),
          rest |-> SubSeq(s, DigitRun(s, max) + 1, Len(s))]

\* StrftimeItems of "%Y.%m.%d %H:%M": numeric items, literals and a space
Items == <<"Y", ".", "m", ".", "d", " ", "H", ":", "M">>

\* the value of a numeric item as an integer: v, or -v when negative (v is at
\* most 2^31, and 2^31 only when negative)
ItemValue(negative, v) ==
    IF v = <<0, 0, 8>> THEN -2147483647 - 1
    ELSE (IF negative THEN -1 ELSE 1) * (Limb(v, 1) + Limb(v, 2) * Base + Limb(v, 3) * Base * Base)

RECURSIVE parse_internal(_, _, _)
\* Parsed::set_year, set_month, set_day, set_hour and set_minute on the
\* number r read for item i: the year is an i32, the others are in the range
\* of their item
SetItem(i, parsed, negative, r) ==
    IF r.k = "Err" THEN r
    ELSE IF \/ BLen(r.v) > 32
            \/ BLen(r.v) = 32 /\ ~(negative /\ r.v = <<0, 0, 8>>)
            \/ Items[i] = "m" /\ ItemValue(negative, r.v) \notin 1..12
            \/ Items[i] = "d" /\ ItemValue(negative, r.v) \notin 1..31
            \/ Items[i] = "H" /\ ItemValue(negative, r.v) \notin 0..23
            \/ Items[i] = "M" /\ ItemValue(negative, r.v) \notin 0..59
    THEN Err("input is out of range")
    ELSE parse_internal(r.rest, i + 1, [parsed EXCEPT ![Items[i]] = ItemValue(negative, r.v)])

\* a numeric item read from s, which begins with no white space: the year
\* with a sign has any number of digits, the year without one at most four
\* and the other items at most two
Numeric(s, i, parsed) ==
    LET signed == Items[i] = "Y" /\ s # <<>> /\ s[1] \in {43, 45}
    IN  SetItem(i, parsed, signed /\ s[1] = 45,
                number(IF signed THEN Tail(s) ELSE s,
                       IF signed THEN Len(s) ELSE IF Items[i] = "Y" THEN 4 ELSE 2))

\* format::parse_internal from item i on: white space is skipped before a
\* numeric item and for the space, a literal must be the next character, and
\* nothing may be left after the last item
parse_internal(s, i, parsed) ==
    IF i > Len(Items)
    THEN (IF s # <<>> THEN Err("trailing input") ELSE Ok(parsed))
    ELSE IF Items[i] = " " THEN parse_internal(trim_start(s), i + 1, parsed)
    ELSE IF Items[i] \in {".", ":"}
    THEN (IF s = <<>> THEN Err("premature end of input")
          ELSE IF s[1] # Str(<<Items[i]>>)[1] THEN Err("input contains invalid characters")
          ELSE parse_internal(Tail(s), i + 1, parsed))
    ELSE Numeric(trim_start(s), i, parsed)

\* NaiveDateTime::parse_from_str(&rec.datetime, "%Y.%m.%d %H:%M"): the items
\* are parsed, and then (Parsed::to_naive_datetime_with_offset) the date must
\* exist, in a year from -262143 to 262142
parse_from_str(text) ==
    LET parsed == parse_internal(text, 1, [Y |-> 0, m |-> 0, d |-> 0, H |-> 0, M |-> 0])
    IN  IF parsed.k = "Err" THEN parsed
        ELSE IF \/ parsed.v.Y \notin -262143..262142
                \/ parsed.v.d > DaysInMonth(parsed.v.Y, parsed.v.m)
        THEN Err("input is out of range")
        ELSE parsed

\* the vwc of a row computed with the temperature of the row before it
Pushed_UsesPreviousTemp(out, dt, rec, soil) ==
    Append(out, <<dt, rec.raw, rec.temp,
                  mc_calc_vwc(rec.raw,
                              IF out = <<>> THEN rec.temp ELSE out[Len(out)][3],
                              soil).ret>>)

\* "out.push((dt, rec.raw, rec.temp, vwc))" with vwc = mc_calc_vwc(rec.raw, rec.temp, soil)
Pushed(out, dt, rec, soil) ==
    Append(out, <<dt, rec.raw, rec.temp, mc_calc_vwc(rec.raw, rec.temp, soil).ret>>)

\* the for loop of process_file from row i on, with the records pushed so far:
\* "let rec: RawRecord = result?" and "let dt = ...parse_from_str(...)?" return
\* the error of the first row that fails.  The reader is built without
\* flexible(true): a row with another number of fields than the first row is
\* an error of the reader
RECURSIVE ProcessRows(_, _, _, _)
ProcessParsed(rows, soil, i, out, rec, dt) ==
    IF dt.k = "Err" THEN dt
    ELSE ProcessRows(rows, soil, i + 1, Pushed(out, dt.v, rec, soil))

ProcessRecord(rows, soil, i, out, rec) ==
    IF rec.k = "Err" THEN rec
    ELSE ProcessParsed(rows, soil, i, out, rec.v, parse_from_str(rec.v.datetime))

ProcessRows(rows, soil, i, out) ==
    IF i > Len(rows) THEN Ok(out)
    ELSE IF Len(rows[i]) # Len(rows[1]) THEN Err("unequal lengths")
    ELSE ProcessRecord(rows, soil, i, out, deserialize(rows[i]))

\* the rows before the first one that fails
RowsBeforeError(rows, soil) ==
    SubSeq(rows, 1, (CHOOSE i \in 1..Len(rows) :
                        /\ ProcessRows(SubSeq(rows, 1, i), soil, 1, <<>>).k = "Err"
                        /\ ProcessRows(SubSeq(rows, 1, i - 1), soil, 1, <<>>).k = "Ok") - 1)

\* process_file on what is at the path: [k |-> "file"] with its rows, or
\* [k |-> "no such file"]
process_file_KeepPartial(file, soil) ==
    IF file.k = "no such file" THEN Err("No such file or directory")
    ELSE IF ProcessRows(file.rows, soil, 1, <<>>).k = "Ok"
    THEN ProcessRows(file.rows, soil, 1, <<>>)
    ELSE ProcessRows(RowsBeforeError(file.rows, soil), soil, 1, <<>>)
process_file_SwapsRawAndTemp(file, soil) ==
    IF file.k = "no such file" THEN Err("No such file or directory")
    ELSE IF ProcessRows(file.rows, soil, 1, <<>>).k = "Err"
    THEN ProcessRows(file.rows, soil, 1, <<>>)
    ELSE Ok([i \in 1..Len(file.rows) |->
               <<ProcessRows(file.rows, soil, 1, <<>>).v[i][1],
                 ProcessRows(file.rows, soil, 1, <<>>).v[i][3],
                 ProcessRows(file.rows, soil, 1, <<>>).v[i][2],
                 ProcessRows(file.rows, soil, 1, <<>>).v[i][4]>>])
process_file(file, soil) ==
    IF file.k = "no such file" THEN Err("No such file or directory")
    ELSE ProcessRows(file.rows, soil, 1, <<>>)

\* q is the count of 1e-6 units cut to its integer part, half the first bit cut
\* off and below whether anything non-zero lies under it
Fixed6Up(s, q, half, below) ==
    [k |-> "fixed", s |-> s,
     units |-> IF half /\ (below \/ BBit(q, 0) = 1) THEN BAdd(q, <<1>>) ELSE q]

\* P * 2^e units of 1e-6
Fixed6Of(s, P, e) ==
    IF e >= 0 THEN [k |-> "fixed", s |-> s, units |-> BShl(P, e)]
    ELSE Fixed6Up(s, BShr(P, -e), BBit(P, -e - 1) = 1, BLowNonzero(P, -e - 1))

\* format!("{vwc:.6}"): the decimal with six fractional digits nearest to vwc
\* (ties to even), as its sign and its count of 1e-6 units
Fixed6(v) ==
    IF v.k # "fin" THEN [k |-> v.k]
    ELSE IF v.m = <<>> THEN [k |-> "fixed", s |-> v.s, units |-> <<>>]
    ELSE Fixed6Of(v.s, BMul(v.m, BPow10(6)), v.e)

\* the line main writes for a record: dt.format("%Y.%m.%d %H:%M"), raw.to_string(),
\* temp.to_string() (the shortest decimal that reads back as the same f64, held
\* here as that f64) and format!("{vwc:.6}")
OutputLine(rec) == <<rec[1], rec[2], rec[3], Fixed6(rec[4])>>

\* the lines main writes: the header and one line per record; output.csv is
\* afterwards not written, written with these lines, or partly written with
\* the lines that reached it before the writer failed
OutputLines(records) ==
    <<<<"datetime", "raw", "temp", "VWC_moisture">>>> \o [i \in 1..Len(records) |-> OutputLine(records[i])]

\* "let records = process_file(input_file, soil_type)?" and the writing of
\* output.csv.  The writer is what the file system lets it do: it writes
\* ("ok"), it cannot create output.csv, or a write or the flush fails after n
\* lines reached the file; each "?" returns the error
MainWrite(records, writer) ==
    IF records.k = "Err"
    THEN [exit_code |-> 1, output_csv |-> [k |-> "not written"], stdout |-> <<>>, stderr |-> <<>>,
          returned |-> records]
    ELSE IF writer.k = "cannot create"
    THEN [exit_code |-> 1, output_csv |-> [k |-> "not written"], stdout |-> <<>>, stderr |-> <<>>,
          returned |-> Err(writer.e)]
    ELSE IF writer.k = "fails"
    THEN [exit_code |-> 1,
          output_csv |-> [k |-> "partly written",
                          lines |-> SubSeq(OutputLines(records.v), 1,
                                           Smaller(writer.n, Len(records.v) + 1))],
          stdout |-> <<>>, stderr |-> <<>>, returned |-> Err(writer.e)]
    ELSE [exit_code |-> 0, output_csv |-> [k |-> "written", lines |-> OutputLines(records.v)],
          stdout |-> <<[text |-> "wrote output.csv", arg |-> <<>>]>>, stderr |-> <<>>,
          returned |-> Ok(<<>>)]

\* "let (input_file, soil_type) = process_args(&args)?" and the rest of main;
\* file is what is at the path input_file
MainRun(file, writer, parsed) ==
    IF parsed.k = "exit"
    THEN [exit_code |-> parsed.code, output_csv |-> [k |-> "not written"], stdout |-> parsed.stdout,
          stderr |-> parsed.stderr, returned |-> [k |-> "exit"]]
    ELSE IF parsed.k = "Err"
    THEN [exit_code |-> 1, output_csv |-> [k |-> "not written"], stdout |-> <<>>, stderr |-> <<>>,
          returned |-> parsed]
    ELSE MainWrite(process_file(file, parsed.soil_type), writer)

\* main: the exit code, what is in output.csv afterwards, what was printed,
\* and what main returned (the runtime reports a returned error on stderr as
\* "Error: " and its Debug form, and exits with code 1)
main(args, file, writer) ==
    IF Len(args) # 3
    THEN [exit_code |-> 1, output_csv |-> [k |-> "not written"], stdout |-> print_usage,
          stderr |-> <<>>, returned |-> [k |-> "exit"]]
    ELSE MainRun(file, writer, process_args(args))

(***************************************************************************)
(* State: which call is running (pc), its arguments and what it returned.  *)
(* Each specification below runs one entry point of the library; the       *)
(* variables of the others stay at None.                                   *)
(***************************************************************************)
VARIABLES pc,
          raw_value, temp_value, soil, vwc_out,
          x, y, reg_out,
          timestamps_s, co2_ppm, ch4_ppb, h2o_mmol_mol, chamber_temp_c,
          chamber_pressure_kpa, total_volume_m3, chamber_area_m2, flux_out, flux_prev,
          chamber_prev,
          soil_str, soil_res, args, args_out,
          input_file, soil_arg, writer, file_out, main_out, file_prev



vars == <<pc, <<raw_value, temp_value, soil, vwc_out>>, <<x, y, reg_out>>, <<timestamps_s, co2_ppm, ch4_ppb, h2o_mmol_mol, chamber_temp_c, chamber_pressure_kpa, total_volume_m3, chamber_area_m2, flux_out, flux_prev, chamber_prev>>, <<soil_str, soil_res, args, args_out>>, <<input_file, soil_arg, writer, file_out, main_out, file_prev>>>>

None == [k |-> "none"]


(***************************************************************************)
(* One call of mc_calc_vwc.                                                *)
(***************************************************************************)
\* Raw counts: the sensor's range in steps of RawStep, and a finite count so
\* large that its square overflows.
RawStep == 1000
MaxRawK == 4
HugeExp == 700
InitVwc ==
    /\ pc = "mc_calc_vwc"
    \* raw counts: the sensor's range, one whose square overflows and one whose
    \* square is finite but whose correction term overflows
    /\ raw_value \in {FromInt(RawStep * i) : i \in 0..MaxRawK}
                        \cup {Pow2F(HugeExp), Pow2F(526)}
    \* temperatures: none (NaN), the reference, colder, warmer, infinite, and next
    \* to the reference
    /\ temp_value \in {NaN, REF_T, FromInt(4), Dec(355, -1), Inf(0),
                         FSub(REF_T, Pow2F(-48)), FSub(REF_T, Pow2F(-20)),
                         FAdd(REF_T, Pow2F(-20))}
    /\ soil \in SoilType
    /\ vwc_out = None
    /\ x = None /\ y = None /\ reg_out = None
    /\ timestamps_s = None /\ co2_ppm = None /\ ch4_ppb = None /\ h2o_mmol_mol = None /\ chamber_temp_c = None /\ chamber_pressure_kpa = None /\ total_volume_m3 = None /\ chamber_area_m2 = None /\ flux_out = None /\ flux_prev = None /\ chamber_prev = None
    /\ soil_str = None /\ soil_res = None /\ args = None /\ args_out = None
    /\ input_file = None /\ soil_arg = None /\ writer = None /\ file_out = None /\ main_out = None /\ file_prev = None

McCalcVwc ==
    /\ pc = "mc_calc_vwc"
    /\ vwc_out' = mc_calc_vwc(raw_value, temp_value, soil)
    /\ pc' = "done"
    /\ UNCHANGED <<raw_value, temp_value, soil, <<x, y, reg_out>>, <<timestamps_s, co2_ppm, ch4_ppb, h2o_mmol_mol, chamber_temp_c, chamber_pressure_kpa, total_volume_m3, chamber_area_m2, flux_out, flux_prev, chamber_prev>>, <<soil_str, soil_res, args, args_out>>, <<input_file, soil_arg, writer, file_out, main_out, file_prev>>>>

NextVwc == McCalcVwc

SpecVwc == InitVwc /\ [][NextVwc]_vars

(***************************************************************************)
(* One call of linear_regression.  The series are ramps v0 + dv * i, the   *)
(* y series with an optional bump on its second element.                   *)
(***************************************************************************)
MaxLen == 3

\* <<v0 + dv * 0, ..., v0 + dv * (n - 1)>>
Ramp(v0, dv, n) == [i \in 1..n |-> FAdd(v0, FMul(dv, FromInt(i - 1)))]

\* v with b added to its second element, when it has one
Bump(v, b) == [i \in 1..Len(v) |-> IF i = 2 THEN FAdd(v[i], b) ELSE v[i]]

InitRegress ==
    /\ pc = "linear_regression"
    /\ x \in {Ramp(x0, dx, n) : x0 \in {Zero, Dec(1000000001, -1)},
                                dx \in {Zero, One, FromInt(2), Pow2F(600)},
                                n \in 1..MaxLen}
    /\ y \in {Bump(Ramp(y0, dy, Len(x)), b) : y0 \in {Zero, Dec(1, -1)},
                                             dy \in {Zero, FromInt(2), FromInt(-3), Dec(5, -1), Pow2F(-30), Pow2F(600)},
                                             b \in {Zero, Dec(5, -1)}}
    /\ reg_out = None
    /\ raw_value = None /\ temp_value = None /\ soil = None /\ vwc_out = None
    /\ timestamps_s = None /\ co2_ppm = None /\ ch4_ppb = None /\ h2o_mmol_mol = None /\ chamber_temp_c = None /\ chamber_pressure_kpa = None /\ total_volume_m3 = None /\ chamber_area_m2 = None /\ flux_out = None /\ flux_prev = None /\ chamber_prev = None
    /\ soil_str = None /\ soil_res = None /\ args = None /\ args_out = None
    /\ input_file = None /\ soil_arg = None /\ writer = None /\ file_out = None /\ main_out = None /\ file_prev = None

LinearRegression ==
    /\ pc = "linear_regression"
    /\ reg_out' = linear_regression(x, y)
    /\ pc' = "done"
    /\ UNCHANGED <<x, y, <<raw_value, temp_value, soil, vwc_out>>, <<timestamps_s, co2_ppm, ch4_ppb, h2o_mmol_mol, chamber_temp_c, chamber_pressure_kpa, total_volume_m3, chamber_area_m2, flux_out, flux_prev, chamber_prev>>, <<soil_str, soil_res, args, args_out>>, <<input_file, soil_arg, writer, file_out, main_out, file_prev>>>>

NextRegress == LinearRegression

SpecRegress == InitRegress /\ [][NextRegress]_vars

(***************************************************************************)
(* Calls of compute_gas_flux: one call, and a second call in which only    *)
(* the CH4 series differs.  The series are ramps over 0, 1, 2, ... seconds *)
(* (or over a single instant); their lengths are equal, or one of the six  *)
(* differs from the others.  The H2O series starts at 10 mmol/mol, or at   *)
(* 0.1, whose computed mean over three readings is not 0.1.                *)
(***************************************************************************)
MaxN == 3

\* lengths of the six series, at most one of them unlike the rest
Lengths ==
    {L \in [1..6 -> 0..MaxN] :
        \E w \in 1..6 : \A i \in 1..6, j \in 1..6 : (i # w /\ j # w) => L[i] = L[j]}

InitFlux ==
    /\ pc = "compute_gas_flux"
    /\ \E L \in Lengths, dt \in {One, Zero},
          \* the rates of the CO2 [ppm/s], CH4 [ppb/s] and H2O [mmol/mol/s] ramps
          g \in {<<Zero, Zero, Zero>>,
                 <<Dec(1, -1), One, Dec(5, -1)>>,
                 <<Dec(1, -3), Zero, Dec(5, -1)>>,
                 <<FromInt(2), FromInt(-2), Dec(5, -1)>>},
          \* the first H2O reading [mmol/mol]
          h0 \in {FromInt(10), Dec(1, -1)} :
          \* unequal or zero lengths are tried on one set of values only
          /\ ((\E i \in 1..6 : L[i] # L[1]) \/ L[1] = 0) =>
                dt = One /\ g = <<Dec(1, -1), One, Dec(5, -1)>>
          \* a first H2O reading of 0.1 is tried with constant series of the
          \* greatest length only
          /\ h0 = Dec(1, -1) =>
                L = [i \in 1..6 |-> MaxN] /\ dt = One /\ g = <<Zero, Zero, Zero>>
          /\ \E \* chamber temperature [deg C] and pressure [kPa]: start and step
                tr \in {<<FromInt(25), Zero>>, <<FromInt(20), FromInt(5)>>,
                        <<Dec(-27315, -2), Zero>>},
                pr \in {<<FromInt(91), Zero>>, <<FromInt(90), One>>},
                vol \in {Dec(168521, -7), FromInt(2)},
                area \in {Dec(318, -4), Zero, SignedZero(1)} :
                \* unequal or zero lengths, a first H2O reading of 0.1 and equal
                \* timestamps are tried with one chamber only
                /\ ((\E i \in 1..6 : L[i] # L[1]) \/ L[1] = 0 \/ h0 = Dec(1, -1) \/ dt = Zero) =>
                      /\ tr = <<FromInt(25), Zero>> /\ pr = <<FromInt(91), Zero>>
                      /\ vol = Dec(168521, -7) /\ area = Dec(318, -4)
                \* an area of -0.0 is tried with one chamber only
                /\ area = SignedZero(1) =>
                      /\ tr = <<FromInt(25), Zero>> /\ pr = <<FromInt(91), Zero>>
                      /\ vol = Dec(168521, -7)
                /\ timestamps_s = Ramp(Zero, dt, L[1])
                /\ co2_ppm = Ramp(FromInt(400), g[1], L[2])
                /\ ch4_ppb = Ramp(FromInt(1900), g[2], L[3])
                /\ h2o_mmol_mol = Ramp(h0, g[3], L[4])
                /\ chamber_temp_c = Ramp(tr[1], tr[2], L[5])
                /\ chamber_pressure_kpa = Ramp(pr[1], pr[2], L[6])
                /\ total_volume_m3 = vol
                /\ chamber_area_m2 = area
    /\ flux_out = None
    /\ flux_prev = None
    /\ chamber_prev = None
    /\ raw_value = None /\ temp_value = None /\ soil = None /\ vwc_out = None
    /\ x = None /\ y = None /\ reg_out = None
    /\ soil_str = None /\ soil_res = None /\ args = None /\ args_out = None
    /\ input_file = None /\ soil_arg = None /\ writer = None /\ file_out = None /\ main_out = None /\ file_prev = None

ComputeGasFlux ==
    /\ pc = "compute_gas_flux"
    /\ flux_out' = compute_gas_flux(timestamps_s, co2_ppm, ch4_ppb, h2o_mmol_mol,
                                    chamber_temp_c, chamber_pressure_kpa,
                                    total_volume_m3, chamber_area_m2)
    /\ pc' = "done"
    /\ UNCHANGED <<timestamps_s, co2_ppm, ch4_ppb, h2o_mmol_mol, chamber_temp_c,
                   chamber_pressure_kpa, total_volume_m3, chamber_area_m2, flux_prev,
                   chamber_prev,
                   <<raw_value, temp_value, soil, vwc_out>>, <<x, y, reg_out>>, <<soil_str, soil_res, args, args_out>>, <<input_file, soil_arg, writer, file_out, main_out, file_prev>>>>

\* the caller calls again with another CH4 series of the same length and
\* everything else as before
ComputeGasFluxOtherCh4 ==
    /\ pc = "done"
    /\ flux_out.k = "ok"
    /\ \E b \in {FromInt(7)} :
          /\ ch4_ppb' = Bump(Ramp(ch4_ppb[1], b, Len(ch4_ppb)), b)
          /\ flux_out' = compute_gas_flux(timestamps_s, co2_ppm, ch4_ppb', h2o_mmol_mol,
                                          chamber_temp_c, chamber_pressure_kpa,
                                          total_volume_m3, chamber_area_m2)
    /\ flux_prev' = flux_out
    /\ pc' = "done_again"
    /\ UNCHANGED <<timestamps_s, co2_ppm, h2o_mmol_mol, chamber_temp_c,
                   chamber_pressure_kpa, total_volume_m3, chamber_area_m2, chamber_prev,
                   <<raw_value, temp_value, soil, vwc_out>>, <<x, y, reg_out>>, <<soil_str, soil_res, args, args_out>>, <<input_file, soil_arg, writer, file_out, main_out, file_prev>>>>

\* the caller calls again with the same gas series and timestamps (of the
\* greatest length) for a chamber of f times the volume: with nothing else
\* changed, or with another temperature series, pressure series and area as well
ComputeGasFluxOtherChamber ==
    /\ pc = "done"
    /\ flux_out.k = "ok"
    /\ Len(timestamps_s) = MaxN
    /\ \E f \in {FromInt(2), FromInt(3)}, others \in BOOLEAN :
          /\ others => f = FromInt(2)
          /\ total_volume_m3' = FMul(total_volume_m3, f)
          /\ chamber_area_m2' =
                 IF others THEN FAdd(chamber_area_m2, Dec(1, -2)) ELSE chamber_area_m2
          /\ chamber_temp_c' =
                 IF others THEN [i \in 1..Len(chamber_temp_c) |-> FSub(chamber_temp_c[i], FromInt(3))]
                 ELSE chamber_temp_c
          /\ chamber_pressure_kpa' =
                 IF others THEN [i \in 1..Len(chamber_pressure_kpa) |->
                                    FAdd(chamber_pressure_kpa[i], FromInt(5))]
                 ELSE chamber_pressure_kpa
          /\ flux_out' = compute_gas_flux(timestamps_s, co2_ppm, ch4_ppb, h2o_mmol_mol,
                                          chamber_temp_c', chamber_pressure_kpa',
                                          total_volume_m3', chamber_area_m2')
    /\ flux_prev' = flux_out
    /\ chamber_prev' = [chamber_temp_c |-> chamber_temp_c,
                        chamber_pressure_kpa |-> chamber_pressure_kpa,
                        total_volume_m3 |-> total_volume_m3,
                        chamber_area_m2 |-> chamber_area_m2]
    /\ pc' = "done_other_chamber"
    /\ UNCHANGED <<timestamps_s, co2_ppm, ch4_ppb, h2o_mmol_mol,
                   <<raw_value, temp_value, soil, vwc_out>>, <<x, y, reg_out>>, <<soil_str, soil_res, args, args_out>>, <<input_file, soil_arg, writer, file_out, main_out, file_prev>>>>

NextFlux == ComputeGasFlux \/ ComputeGasFluxOtherCh4 \/ ComputeGasFluxOtherChamber

SpecFlux == InitFlux /\ [][NextFlux]_vars

(***************************************************************************)
(* Resolving a soil-type string: a call of try_from, or of process_args    *)
(* with the string as its soil-type argument, or with an argument too few  *)
(* or too many.  The strings are the machine and readable names of every   *)
(* soil type, as written and in upper case, two machine names in mixed     *)
(* case, and strings that name no soil type.                               *)
(***************************************************************************)
Upper(s) == [i \in 1..Len(s) |-> IF s[i] \in 97..122 THEN s[i] - 32 ELSE s[i]]

SoilStrings ==
    UNION {{as_str[t], ReadableName[t], Upper(as_str[t]), Upper(ReadableName[t])} :
              t \in SoilType}
        \cup {Str(<<"c", "l", "a", "y">>),
              Str(<<"C", "l", "a", "y">>),
              <<>>,
              Str(<<"s", "i", "l", "t", "_", "l", "o", "a", "m">>),
              Str(<<"s", "a", "n", "d", " ">>),
              Str(<<"s", "a", "n", "d", "t", "m", "s", "2">>),
              Str(<<"L", "o", "a", "m", "y", " ", "S", "a", "n", "d">>),
              Str(<<"S", "i", "l", "t">>),
              Str(<<"s", "A", "n", "D">>),
              Str(<<"L", "o", "a", "m", "y", "S", "a", "n", "d", "B">>),
              Str(<<"s", "i", "l", "t", "l", "o", "a", "m", " ", "t", "m", "s", "1">>),
              Str(<<"P", "E">>) \o <<193>> \o Str(<<"T">>),
              Str(<<"l">>) \o <<246>> \o Str(<<"a", "m">>),
              Str(<<"P", "E", "A", "T">>) \o <<931>>,
              <<931>> \o Str(<<"a", "n", "d">>),
              Str(<<"S", "A", "N", "D">>) \o <<8490>>,
              <<304>> \o Str(<<"l", "o", "a", "m">>)}

\* the command lines with s as the soil type, and one shorter and one longer
ArgLists(s) ==
    {<<Str(<<"s", "s", "t">>), Str(<<"i", "n", ".", "c", "s", "v">>), s>>,
     <<Str(<<"s", "s", "t">>), s>>,
     <<Str(<<"s", "s", "t">>), Str(<<"i", "n", ".", "c", "s", "v">>), s, Str(<<"-", "v">>)>>}

InitSoil ==
    /\ pc = "start"
    /\ soil_str \in SoilStrings
    /\ soil_res = None /\ args = None /\ args_out = None
    /\ raw_value = None /\ temp_value = None /\ soil = None /\ vwc_out = None
    /\ x = None /\ y = None /\ reg_out = None
    /\ timestamps_s = None /\ co2_ppm = None /\ ch4_ppb = None /\ h2o_mmol_mol = None /\ chamber_temp_c = None /\ chamber_pressure_kpa = None /\ total_volume_m3 = None /\ chamber_area_m2 = None /\ flux_out = None /\ flux_prev = None /\ chamber_prev = None
    /\ input_file = None /\ soil_arg = None /\ writer = None /\ file_out = None /\ main_out = None /\ file_prev = None

TryFrom ==
    /\ pc = "start"
    /\ soil_res' = try_from(soil_str)
    /\ pc' = "try_from returned"
    /\ UNCHANGED <<soil_str, args, args_out, <<raw_value, temp_value, soil, vwc_out>>, <<x, y, reg_out>>, <<timestamps_s, co2_ppm, ch4_ppb, h2o_mmol_mol, chamber_temp_c, chamber_pressure_kpa, total_volume_m3, chamber_area_m2, flux_out, flux_prev, chamber_prev>>, <<input_file, soil_arg, writer, file_out, main_out, file_prev>>>>

ProcessArgs ==
    /\ pc = "start"
    /\ args' \in ArgLists(soil_str)
    /\ args_out' = process_args(args')
    /\ pc' = IF args_out'.k = "exit" THEN "exited" ELSE "process_args returned"
    /\ UNCHANGED <<soil_str, soil_res, <<raw_value, temp_value, soil, vwc_out>>, <<x, y, reg_out>>, <<timestamps_s, co2_ppm, ch4_ppb, h2o_mmol_mol, chamber_temp_c, chamber_pressure_kpa, total_volume_m3, chamber_area_m2, flux_out, flux_prev, chamber_prev>>, <<input_file, soil_arg, writer, file_out, main_out, file_prev>>>>

NextSoil == TryFrom \/ ProcessArgs

SpecSoil == InitSoil /\ [][NextSoil]_vars

(***************************************************************************)
(* Processing an input file: a call of process_file, or a run of main.     *)
(* The file has up to MaxRows rows, each a well-formed row or a row that   *)
(* fails in the reader, in deserialization or in datetime parsing; or      *)
(* there is no file.  A run of main has its command line and a file system *)
(* that lets the writer write or makes it fail.                            *)
(***************************************************************************)
MaxRows == 3

\* a row of n fields: the datetime at index 1, temp at index 3, raw at index 6
Row(n, datetime, temp, raw) ==
    [i \in 1..n |-> IF i = 2 THEN datetime ELSE IF i = 4 THEN temp
                    ELSE IF i = 7 THEN raw ELSE Str(<<"x">>)]

\* two good rows, a raw count that is no number, a date that does not exist,
\* a row of 8 and a row of 10 fields, an empty temperature and a datetime
\* followed by seconds
RowKinds ==
    {Row(9, Str(<<"2", "0", "2", "4", ".", "0", "2", ".", "2", "9", " ", "2", "3", ":", "4", "5">>),
         Str(<<"2", "3", ".", "5">>), Str(<<"1", "5", "0", "0">>)),
     Row(9, Str(<<"2", "0", "2", "3", ".", "0", "7", ".", "0", "1", " ", "0", "0", ":", "0", "0">>),
         Str(<<"-", "4", ".", "5">>), Str(<<"3", "2", "0", "0">>)),
     Row(9, Str(<<"2", "0", "2", "3", ".", "0", "7", ".", "0", "1", " ", "0", "0", ":", "1", "5">>),
         Str(<<"2", "0">>), Str(<<"a", "b", "c">>)),
     Row(9, Str(<<"2", "0", "2", "3", ".", "0", "2", ".", "2", "9", " ", "1", "2", ":", "0", "0">>),
         Str(<<"2", "0">>), Str(<<"1", "5", "0", "0">>)),
     Row(8, Str(<<"2", "0", "2", "3", ".", "0", "7", ".", "0", "1", " ", "0", "0", ":", "3", "0">>),
         Str(<<"2", "0">>), Str(<<"1", "5", "0", "0">>)),
     Row(10, Str(<<"2", "0", "2", "3", ".", "0", "7", ".", "0", "1", " ", "0", "0", ":", "4", "5">>),
         Str(<<"i", "n", "f">>), Str(<<"1", "5", "0", "0">>)),
     Row(9, Str(<<"2", "0", "2", "3", ".", "0", "7", ".", "0", "1", " ", "0", "1", ":", "0", "0">>),
         <<>>, Str(<<"1", "5", "0", "0">>)),
     Row(9, Str(<<"2", "0", "2", "3", ".", "0", "7", ".", "0", "1", " ", "0", "1", ":", "1", "5", ":", "0", "0">>),
         Str(<<"2", "0">>), Str(<<"1", "5", "0", "0">>))}

Writers ==
    {[k |-> "ok"], [k |-> "cannot create", e |-> "Permission denied"]}
        \cup {[k |-> "fails", n |-> n, e |-> "No space left on device"] : n \in 0..MaxRows}

InitFile ==
    /\ pc = "start"
    /\ input_file \in {[k |-> "file", rows |-> rows] : rows \in UNION {[1..n -> RowKinds] : n \in 0..MaxRows}}
                      \cup {[k |-> "no such file"]}
    /\ soil_arg \in {Str(<<"u", "n", "i", "v", "e", "r", "s", "a", "l">>), Str(<<"P", "e", "a", "t">>),
                    Str(<<"c", "l", "a", "y">>)}
    /\ writer = None /\ file_out = None /\ main_out = None /\ file_prev = None
    /\ raw_value = None /\ temp_value = None /\ soil = None /\ vwc_out = None
    /\ x = None /\ y = None /\ reg_out = None
    /\ timestamps_s = None /\ co2_ppm = None /\ ch4_ppb = None /\ h2o_mmol_mol = None /\ chamber_temp_c = None /\ chamber_pressure_kpa = None /\ total_volume_m3 = None /\ chamber_area_m2 = None /\ flux_out = None /\ flux_prev = None /\ chamber_prev = None
    /\ soil_str = None /\ soil_res = None /\ args = None /\ args_out = None

\* a caller of the library passes the soil type that the string names
ProcessFile ==
    /\ pc = "start"
    /\ try_from(soil_arg).k = "Ok"
    /\ file_out' = process_file(input_file, try_from(soil_arg).v.id)
    /\ pc' = "process_file returned"
    /\ UNCHANGED <<input_file, soil_arg, writer, main_out, file_prev, <<raw_value, temp_value, soil, vwc_out>>, <<x, y, reg_out>>, <<timestamps_s, co2_ppm, ch4_ppb, h2o_mmol_mol, chamber_temp_c, chamber_pressure_kpa, total_volume_m3, chamber_area_m2, flux_out, flux_prev, chamber_prev>>, <<soil_str, soil_res, args, args_out>>>>

\* a run of main with soil_arg on a command line, the file at the path and
\* a writer; a writer that fails is tried where main comes to use the writer
Main ==
    /\ pc = "start"
    /\ args' \in ArgLists(soil_arg)
    /\ writer' \in Writers
    /\ writer'.k # "ok" => main(args', input_file, [k |-> "ok"]).exit_code = 0
    /\ main_out' = main(args', input_file, writer')
    /\ pc' = "main exited"
    /\ UNCHANGED <<input_file, soil_arg, file_out, file_prev, soil_str, soil_res, args_out, <<raw_value, temp_value, soil, vwc_out>>, <<x, y, reg_out>>, <<timestamps_s, co2_ppm, ch4_ppb, h2o_mmol_mol, chamber_temp_c, chamber_pressure_kpa, total_volume_m3, chamber_area_m2, flux_out, flux_prev, chamber_prev>>>>

\* the caller processes the same rows again, in another order
ProcessFileReordered ==
    /\ pc = "process_file returned"
    /\ file_out.k = "Ok"
    /\ \E order \in {p \in [1..Len(input_file.rows) -> 1..Len(input_file.rows)] :
                        \A i, j \in 1..Len(input_file.rows) : p[i] = p[j] => i = j} :
          /\ input_file' = [k |-> "file", rows |-> [i \in 1..Len(input_file.rows) |-> input_file.rows[order[i]]]]
          /\ file_out' = process_file(input_file', try_from(soil_arg).v.id)
    /\ file_prev' = file_out
    /\ pc' = "process_file returned again"
    /\ UNCHANGED <<soil_arg, writer, main_out, <<raw_value, temp_value, soil, vwc_out>>, <<x, y, reg_out>>, <<timestamps_s, co2_ppm, ch4_ppb, h2o_mmol_mol, chamber_temp_c, chamber_pressure_kpa, total_volume_m3, chamber_area_m2, flux_out, flux_prev, chamber_prev>>, <<soil_str, soil_res, args, args_out>>>>

NextFile == ProcessFile \/ Main \/ ProcessFileReordered

SpecFile == InitFile /\ [][NextFile]_vars

(***************************************************************************)
(* Claims about mc_calc_vwc (checked under SpecVwc).                       *)
(***************************************************************************)
\* the same f64 value (two NaNs count as the same value)
Same(u, v) == u = v

InUnitInterval(v) == FLe(Zero, v) /\ FLe(v, One)

Returned == pc = "done"

\* clamp(a*raw^2 + b*raw + c, 0, 1) for the soil's coefficients
ClampedQuadratic(st, raw) ==
    clamp(Quadratic(coeffs(st), raw), Zero, One)

\* C1: for every soil type, every finite raw value and every temperature
\* (NaN included), mc_calc_vwc returns a value v with 0 <= v <= 1.
C1_VwcInUnitInterval ==
    (Returned /\ IsFinite(raw_value)) => InUnitInterval(vwc_out.ret)

\* C2: with a NaN temperature the correction is skipped: corrected_raw = raw and
\* the result is clamp(a*raw^2 + b*raw + c, 0, 1), for every soil and raw value.
C2_NaNTempSkipsCorrection ==
    (Returned /\ IsNaN(temp_value)) =>
        /\ Same(vwc_out.corrected_raw, raw_value)
        /\ Same(vwc_out.ret, ClampedQuadratic(soil, raw_value))

\* the raw count corrected for temperature t, from the unclamped first estimate
CorrectedRaw(st, raw, t) ==
    LET q == Quadratic(coeffs(st), raw)
    IN  FAdd(raw, FMul(FSub(REF_T, t), FAdd(ACOR_T, FMul(FSub(WCOR_T, ACOR_T), q))))

\* C3: for a non-NaN temperature t the result is
\* clamp(q(raw + (24 - t) * (1.911327 + (0.64108 - 1.911327) * q(raw))), 0, 1):
\* two evaluations of the quadratic and nothing else added to corrected_raw.
C3_TwoPassCorrection ==
    (Returned /\ ~IsNaN(temp_value)) =>
        /\ Same(vwc_out.corrected_raw, CorrectedRaw(soil, raw_value, temp_value))
        /\ Same(vwc_out.ret,
                ClampedQuadratic(soil, CorrectedRaw(soil, raw_value, temp_value)))

(***************************************************************************)
(* Claims about linear_regression (checked under SpecRegress).             *)
(***************************************************************************)
RegReturned == pc = "done" /\ reg_out # None /\ reg_out.k = "ok"

AllFinite(v) == \A i \in 1..Len(v) : IsFinite(v[i])

\* every element of v equals the first: v has zero variance
AllEqual(v) == \A i \in 1..Len(v) : v[i] = v[1]

\* |u - v| <= tol, false when the difference is NaN
Within(u, v, tol) == FLe(FAbs(FSub(u, v)), tol)

\* C4: for non-empty equal-length x, y where all x are equal, linear_regression
\* returns slope = 0 and R^2 = 0 and divides neither by Sxx nor by sqrt(Sxx*Syy).
C4_ZeroVarianceX ==
    (RegReturned /\ Len(x) >= 1 /\ Len(y) = Len(x) /\ AllEqual(x)) =>
        /\ reg_out.slope = Zero
        /\ reg_out.r2 = Zero
        /\ ~reg_out.divided_by_ss_xx
        /\ ~reg_out.divided_by_sqrt

\* The statistics as the specification writes them: sums, in index order, of
\* the products of deviations about the arithmetic means.
RECURSIVE Total(_, _)
Total(v, i) == IF i = 0 THEN Zero ELSE FAdd(Total(v, i - 1), v[i])

ArithMean(v) == FDiv(Total(v, Len(v)), FromInt(Len(v)))

\* sum over 1..i of (u - um)(v - vm)
RECURSIVE DevSum(_, _, _, _, _)
DevSum(u, um, v, vm, i) ==
    IF i = 0 THEN Zero
    ELSE FAdd(DevSum(u, um, v, vm, i - 1), FMul(FSub(u[i], um), FSub(v[i], vm)))

\* S_uv: the sum of deviation products of u and v about their arithmetic means
SS(u, v) == DevSum(u, ArithMean(u), v, ArithMean(v), Len(u))

MachineEpsilon == Pow2F(-52)

BelowEpsilon(v) == FLt(FAbs(v), MachineEpsilon)

Square(v) == FMul(v, v)

\* the largest magnitude among the elements of v
Peak(v) ==
    FAbs(v[CHOOSE i \in 1..Len(v) : \A j \in 1..Len(v) : FLe(FAbs(v[j]), FAbs(v[i]))])

\* every element of v is finite and of magnitude at most bound
Bounded(v, bound) == \A i \in 1..Len(v) : IsFinite(v[i]) /\ FLe(FAbs(v[i]), bound)

\* magnitudes far from overflow: at most 2^200
Moderate(v) == Bounded(v, Pow2F(200))

\* the elements of v spread about their mean: S_vv is at least
\* 2^(-bits) * n * (the largest magnitude)^2
Spread(v, bits) ==
    FLe(FMul(FMul(Pow2F(-bits), FromInt(Len(v))), Square(Peak(v))), SS(v, v))

\* Exact numbers (-1)^s * m * 2^e: the difference and the product of finite
\* values without rounding, and the equality of two exact numbers.
ExactSub(a, b) ==
    LET e == Smaller(a.e, b.e)
        A == BShl(a.m, a.e - e)
        B == BShl(b.m, b.e - e)
    IN  IF a.s # b.s THEN [s |-> a.s, m |-> BAdd(A, B), e |-> e]
        ELSE IF BCmp(A, B) >= 0 THEN [s |-> a.s, m |-> BSub(A, B), e |-> e]
        ELSE [s |-> 1 - a.s, m |-> BSub(B, A), e |-> e]

ExactMul(p, q) == [s |-> (p.s + q.s) % 2, m |-> BMul(p.m, q.m), e |-> p.e + q.e]

ExactEq(p, q) ==
    IF p.m = <<>> \/ q.m = <<>> THEN p.m = q.m
    ELSE /\ p.s = q.s
         /\ BCmp(BShl(p.m, p.e - Smaller(p.e, q.e)), BShl(q.m, q.e - Smaller(p.e, q.e))) = 0

\* the index of a least and of a greatest element of u
Least(u) == CHOOSE i \in 1..Len(u) : \A j \in 1..Len(u) : FLe(u[i], u[j])
Greatest(u) == CHOOSE i \in 1..Len(u) : \A j \in 1..Len(u) : FLe(u[j], u[i])

\* the slope of the line through the points of least and of greatest u
LineSlope(u, v) ==
    FDiv(FSub(v[Greatest(u)], v[Least(u)]), FSub(u[Greatest(u)], u[Least(u)]))

\* the points (u[i], v[i]) lie exactly on one line of non-zero slope: the u are
\* not all equal, and every point is on the line through the points of least
\* and of greatest u, whose v differ
ExactLine(u, v) ==
    /\ Len(u) >= 2 /\ Len(v) = Len(u)
    /\ AllFinite(u) /\ AllFinite(v)
    /\ ~FEq(u[Greatest(u)], u[Least(u)])
    /\ ~FEq(v[Greatest(u)], v[Least(u)])
    /\ \A i \in 1..Len(u) :
          ExactEq(ExactMul(ExactSub(v[i], v[Least(u)]), ExactSub(u[Greatest(u)], u[Least(u)])),
                  ExactMul(ExactSub(v[Greatest(u)], v[Least(u)]), ExactSub(u[i], u[Least(u)])))

Tol10 == Dec(1, -10)

SlopeAndFitOfLine ==
    /\ Within(reg_out.slope, LineSlope(x, y), Tol10)
    /\ Within(reg_out.r2, One, Tol10)

\* C5 as claimed: for every exact line y[i] = m*x[i] + k with m # 0 the slope is
\* within 1e-10 of m and R^2 within 1e-10 of 1.
C5_ExactLine == (RegReturned /\ ExactLine(x, y)) => SlopeAndFitOfLine

\* an exact line of at most 1000 points of moderate magnitude and of slope at
\* most 100 in magnitude, whose x and whose y each pass the epsilon policy
\* (S_xx and S_yy at least epsilon) and spread about their mean (S_vv at least
\* 2^-40 * n * (the largest magnitude)^2)
SpreadLine(u, v) ==
    /\ ExactLine(u, v)
    /\ Len(u) <= 1000
    /\ Moderate(u) /\ Moderate(v)
    /\ FLe(FAbs(LineSlope(u, v)), FromInt(100))
    /\ ~BelowEpsilon(SS(u, u)) /\ ~BelowEpsilon(SS(v, v))
    /\ Spread(u, 40) /\ Spread(v, 40)

\* C5 as amended: for every exact line y[i] = m*x[i] + k with 0 < |m| <= 100
\* through at most 1000 points of magnitude at most 2^200, with S_xx and S_yy
\* each at least epsilon and at least 2^-40 * n * (the largest magnitude)^2,
\* the slope is within 1e-10 of m and R^2 within 1e-10 of 1.
C5_ExactSpreadLine == (RegReturned /\ SpreadLine(x, y)) => SlopeAndFitOfLine

\* the line y = x/2 through (0, 0), (1, 0.5), (2, 1) was fitted
C5_Witness ==
    /\ RegReturned /\ SpreadLine(x, y) /\ Len(x) = 3
    /\ y[2] = Dec(5, -1)
    /\ FEq(LineSlope(x, y), Dec(5, -1))
    /\ Within(reg_out.slope, Dec(5, -1), Tol10)

\* C10: for finite, non-empty, equal-length inputs the returned slope and R^2
\* are both finite.
C10_FiniteOutputs ==
    (RegReturned /\ Len(x) >= 1 /\ Len(y) = Len(x) /\ AllFinite(x) /\ AllFinite(y)) =>
        IsFinite(reg_out.slope) /\ IsFinite(reg_out.r2)

\* C15: slope = Sxy/Sxx unless |Sxx| < epsilon, then 0; R^2 =
\* (Sxy / sqrt(Sxx*Syy))^2 unless |Sxx| < epsilon or |Syy| < epsilon, then 0
\* (so |Syy| < epsilon alone zeroes R^2 but not the slope).
C15_EpsilonPolicy ==
    (RegReturned /\ Len(x) >= 1 /\ Len(y) = Len(x)) =>
        LET Sxy == SS(x, y)
            Sxx == SS(x, x)
            Syy == SS(y, y)
        IN  /\ reg_out.slope = (IF BelowEpsilon(Sxx) THEN Zero ELSE FDiv(Sxy, Sxx))
            /\ reg_out.r2 = (IF BelowEpsilon(Sxx) \/ BelowEpsilon(Syy) THEN Zero
                             ELSE Square(FDiv(Sxy, FSqrt(FMul(Sxx, Syy)))))

C15_Witness ==
    /\ RegReturned /\ Len(x) >= 2 /\ Len(y) = Len(x)
    /\ LET Sxy == SS(x, y)
           Sxx == SS(x, x)
           Syy == SS(y, y)
       IN  /\ BelowEpsilon(Syy) /\ ~BelowEpsilon(Sxx) /\ ~IsZero(Syy)
           /\ reg_out.r2 = Zero
           /\ reg_out.slope = FDiv(Sxy, Sxx) /\ ~IsZero(reg_out.slope)

\* C19: every R^2 returned for non-empty, equal-length, finite inputs lies in
\* [0, 1].
C19_R2InUnitInterval ==
    (RegReturned /\ Len(x) >= 1 /\ Len(y) = Len(x) /\ AllFinite(x) /\ AllFinite(y)) =>
        InUnitInterval(reg_out.r2)

(***************************************************************************)
(* Claims about compute_gas_flux (checked under SpecFlux).                 *)
(***************************************************************************)
Called == pc \in {"done", "done_again"} /\ flux_out # None

FluxReturned == Called /\ flux_out.k = "ok"

SixSeries ==
    <<timestamps_s, co2_ppm, ch4_ppb, h2o_mmol_mol, chamber_temp_c, chamber_pressure_kpa>>

SameLengths == \A i \in 1..6 : Len(SixSeries[i]) = Len(timestamps_s)

\* K = (P_Pa / (8.314 * T_K)) * (volume / area) from the arithmetic means of
\* the whole temperature and pressure series
T_K == FAdd(ArithMean(chamber_temp_c), Dec(27315, -2))
P_Pa == FMul(ArithMean(chamber_pressure_kpa), FromInt(1000))
K == FMul(FDiv(P_Pa, FMul(Dec(8314, -3), T_K)), FDiv(total_volume_m3, chamber_area_m2))

\* the regression of v on u as C15 states it
OlsSlope(u, v) == IF BelowEpsilon(SS(u, u)) THEN Zero ELSE FDiv(SS(u, v), SS(u, u))
OlsR2(u, v) ==
    IF BelowEpsilon(SS(u, u)) \/ BelowEpsilon(SS(v, v)) THEN Zero
    ELSE Square(FDiv(SS(u, v), FSqrt(FMul(SS(u, u), SS(v, v)))))

Million == FromInt(1000000)

FluxesAreZero ==
    /\ Within(flux_out.flux_co2_umol_m2_s, Zero, Tol10)
    /\ Within(flux_out.flux_ch4_nmol_m2_s, Zero, Tol10)
    /\ Within(flux_out.flux_h2o_umol_m2_s, Zero, Tol10)

ConstantGases ==
    /\ SameLengths /\ Len(timestamps_s) >= 1
    /\ AllEqual(co2_ppm) /\ AllEqual(ch4_ppb) /\ AllEqual(h2o_mmol_mol)

\* C6 as claimed: with constant CO2, CH4 and H2O series the call raises no error
\* and all three fluxes are 0 within 1e-10, whatever the temperature, pressure,
\* volume and area.
C6_ConstantGasesZeroFlux ==
    (Called /\ ConstantGases) => (flux_out.k = "ok" /\ FluxesAreZero)

\* timestamps that the epsilon policy takes for equal (S_xx below epsilon), or
\* that spread about their mean: S_xx is at least 2^-30 and at least
\* 2^-22 * n * (the largest magnitude)
SpreadInTime(t) ==
    \/ BelowEpsilon(SS(t, t))
    \/ /\ FLe(Pow2F(-30), SS(t, t))
       /\ FLe(FMul(FromInt(Len(t)), Peak(t)), FMul(Pow2F(22), SS(t, t)))

\* constant series of at most 1000 samples each: at most 10^6 ppm of CO2, 10^6
\* ppb of CH4 and 10^3 mmol/mol of H2O, over timestamps of moderate magnitude
\* that are equal or spread, in a chamber with |K| <= 1000
ModerateConstantGases ==
    /\ ConstantGases
    /\ Len(timestamps_s) <= 1000
    /\ Moderate(timestamps_s) /\ SpreadInTime(timestamps_s)
    /\ Bounded(co2_ppm, Million)
    /\ Bounded(ch4_ppb, Million)
    /\ Bounded(h2o_mmol_mol, FromInt(1000))
    /\ FLe(FAbs(K), FromInt(1000))

\* C6 as amended: constant CO2, CH4 and H2O series of at most 1000 samples, of
\* at most 10^6 ppm, 10^6 ppb and 10^3 mmol/mol, over timestamps of magnitude
\* at most 2^200 with S_xx below epsilon or at least 2^-30 and at least
\* 2^-22 * n * max|t|, in a chamber whose scale factor has |K| <= 1000, raise
\* no error and give three fluxes that are 0 within 1e-10.
C6_ModerateConstantGasesZeroFlux ==
    (Called /\ ModerateConstantGases) => (flux_out.k = "ok" /\ FluxesAreZero)

\* three readings of 0.1 mmol/mol, whose computed mean is not 0.1, gave a zero
\* H2O flux
C6_Witness ==
    /\ FluxReturned /\ ModerateConstantGases /\ Len(timestamps_s) = 3
    /\ ~AllEqual(timestamps_s)
    /\ ~FEq(ArithMean(h2o_mmol_mol), h2o_mmol_mol[1])
    /\ IsFinite(K) /\ ~IsZero(K)
    /\ IsZero(flux_out.flux_h2o_umol_m2_s)

\* the CO2 series is linear in time up to the rounding of its values: the
\* timestamps are not all equal, the readings at the least and at the greatest
\* timestamp differ (the rate r is their difference over the time between
\* them), and every reading is within 2^-48 of the largest reading's magnitude
\* of the line through those two points
LinearCo2 ==
    /\ SameLengths /\ Len(timestamps_s) >= 2
    /\ AllFinite(timestamps_s) /\ AllFinite(co2_ppm)
    /\ ~FEq(timestamps_s[Greatest(timestamps_s)], timestamps_s[Least(timestamps_s)])
    /\ ~FEq(co2_ppm[Greatest(timestamps_s)], co2_ppm[Least(timestamps_s)])
    /\ \A i \in 1..Len(timestamps_s) :
          Within(co2_ppm[i],
                 FAdd(co2_ppm[Least(timestamps_s)],
                      FMul(LineSlope(timestamps_s, co2_ppm),
                           FSub(timestamps_s[i], timestamps_s[Least(timestamps_s)]))),
                 FMul(Pow2F(-48), Peak(co2_ppm)))

\* r*1e-6 * (P*1000 / (8.314*(T+273.15))) * (V/A) * 1e6
ExpectedCo2Flux ==
    FMul(FMul(FMul(FMul(LineSlope(timestamps_s, co2_ppm), Dec(1, -6)),
                   FDiv(P_Pa, FMul(Dec(8314, -3), T_K))),
              FDiv(total_volume_m3, chamber_area_m2)),
         Million)

Co2FluxAsExpected ==
    /\ Within(flux_out.flux_co2_umol_m2_s, ExpectedCo2Flux, Dec(1, -2))
    /\ FLt(Dec(999, -3), flux_out.r2_co2)

\* C7 as claimed: for a CO2 series rising linearly at r ppm/s, flux_co2 is
\* within 0.01 of r*1e-6 * (P*1000/(8.314*(T+273.15))) * (V/A) * 1e6 and
\* r2_co2 > 0.999.
C7_LinearCo2Flux == (FluxReturned /\ LinearCo2) => Co2FluxAsExpected

\* a linear CO2 series of at most 1000 readings of at most 10^6 ppm, over
\* timestamps of moderate magnitude that pass the epsilon policy and spread
\* about their mean (S_xx at least 2^-60 * n * (the largest magnitude)^2), whose
\* mol/mol series passes the epsilon policy, with an expected flux of at most
\* 100 in magnitude
ModerateLinearCo2 ==
    /\ LinearCo2
    /\ Len(timestamps_s) <= 1000
    /\ Moderate(timestamps_s)
    /\ Bounded(co2_ppm, Million)
    /\ ~BelowEpsilon(SS(timestamps_s, timestamps_s))
    /\ Spread(timestamps_s, 60)
    /\ ~BelowEpsilon(SS(Scale(co2_ppm, Dec(1, -6)), Scale(co2_ppm, Dec(1, -6))))
    /\ FLe(FAbs(ExpectedCo2Flux), FromInt(100))

\* C7 as amended: the same for at most 1000 readings of at most 10^6 ppm, when
\* the timestamps have magnitude at most 2^200 and S_xx at least epsilon and at
\* least 2^-60 * n * max|t|^2, the S_yy of the mol/mol series is at least
\* epsilon, and the expected flux has magnitude at most 100.
C7_ModerateLinearCo2Flux == (FluxReturned /\ ModerateLinearCo2) => Co2FluxAsExpected

\* three readings rising by 0.1 ppm each second were fitted
C7_Witness ==
    /\ FluxReturned /\ ModerateLinearCo2 /\ Len(timestamps_s) = 3
    /\ co2_ppm[2] = FAdd(FromInt(400), Dec(1, -1))
    /\ Within(LineSlope(timestamps_s, co2_ppm), Dec(1, -1), Dec(1, -12))
    /\ FLt(Zero, flux_out.flux_co2_umol_m2_s)

\* C8: the call panics if any one of the six input series is empty.
C8_PanicsOnEmptySeries ==
    (Called /\ \E i \in 1..6 : Len(SixSeries[i]) = 0) => flux_out.k = "panic"

\* C9: the call produces no result whenever the six series do not all have the
\* same length.
C9_FailsOnLengthMismatch ==
    (Called /\ ~SameLengths) => flux_out.k = "panic"

\* C16: the scale factor is K = (P_Pa / (8.314 * T_K)) * (volume / area) with
\* T_K the mean of the whole temperature series plus 273.15 and P_Pa the mean of
\* the whole pressure series times 1000, and that one K multiplies the slope of
\* each of the three channels.
C16_ScaleFactor ==
    FluxReturned =>
        /\ flux_out.pv_art = K
        /\ flux_out.flux_co2_umol_m2_s = FMul(FMul(flux_out.slope_co2, K), Million)
        /\ flux_out.flux_ch4_nmol_m2_s =
              FMul(FMul(FMul(flux_out.slope_ch4_raw, Dec(1, -9)), K), FromInt(1000000000))
        /\ flux_out.flux_h2o_umol_m2_s =
              FMul(FMul(FMul(flux_out.slope_h2o_raw, Dec(1, -3)), K), Million)

C16_Witness ==
    /\ FluxReturned /\ SameLengths /\ Len(timestamps_s) = 3
    /\ ~AllEqual(chamber_temp_c) /\ ~AllEqual(chamber_pressure_kpa)
    /\ IsFinite(K) /\ ~IsZero(K)
    /\ ~IsZero(flux_out.flux_co2_umol_m2_s)
    /\ ~IsZero(flux_out.flux_ch4_nmol_m2_s)
    /\ ~IsZero(flux_out.flux_h2o_umol_m2_s)

\* C17: flux_ch4 = slope(ch4_ppb vs time) * 1e-9 * K * 1e9 and
\* flux_h2o = slope(h2o_mmol_mol vs time) * 1e-3 * K * 1e6, and r2_ch4, r2_h2o
\* are the R^2 of those regressions on the raw series.
C17_RawChannels ==
    (FluxReturned /\ SameLengths) =>
        /\ flux_out.flux_ch4_nmol_m2_s =
              FMul(FMul(FMul(OlsSlope(timestamps_s, ch4_ppb), Dec(1, -9)), K),
                   FromInt(1000000000))
        /\ flux_out.flux_h2o_umol_m2_s =
              FMul(FMul(FMul(OlsSlope(timestamps_s, h2o_mmol_mol), Dec(1, -3)), K), Million)
        /\ flux_out.r2_ch4 = OlsR2(timestamps_s, ch4_ppb)
        /\ flux_out.r2_h2o = OlsR2(timestamps_s, h2o_mmol_mol)

C17_Witness ==
    /\ FluxReturned /\ SameLengths /\ Len(timestamps_s) = 3
    /\ IsFinite(K)
    /\ FLt(Zero, flux_out.flux_h2o_umol_m2_s)
    /\ FLt(flux_out.flux_ch4_nmol_m2_s, Zero)
    /\ FLt(Dec(999, -3), flux_out.r2_ch4)

\* C18: after a second call that differs from the first in the CH4 series only,
\* the flux and R^2 of CO2 and of H2O are what the first call returned.
C18_ChannelsIndependent ==
    (pc = "done_again" /\ flux_out.k = "ok") =>
        /\ flux_prev.k = "ok"
        /\ flux_out.flux_co2_umol_m2_s = flux_prev.flux_co2_umol_m2_s
        /\ flux_out.r2_co2 = flux_prev.r2_co2
        /\ flux_out.flux_h2o_umol_m2_s = flux_prev.flux_h2o_umol_m2_s
        /\ flux_out.r2_h2o = flux_prev.r2_h2o

C18_Witness ==
    /\ pc = "done_again" /\ flux_out.k = "ok" /\ SameLengths /\ Len(timestamps_s) = 3
    /\ flux_out.flux_ch4_nmol_m2_s # flux_prev.flux_ch4_nmol_m2_s
    /\ flux_out.r2_ch4 # flux_prev.r2_ch4
    /\ IsFinite(flux_out.flux_h2o_umol_m2_s) /\ ~IsZero(flux_out.flux_h2o_umol_m2_s)

(***************************************************************************)
(* Claims about soil-type string resolution (checked under SpecSoil).      *)
(***************************************************************************)
TryFromReturned == pc = "try_from returned"

\* s and t are the same string when the case of the letters A to Z is ignored
SameIgnoringCase(s, t) ==
    /\ Len(s) = Len(t)
    /\ \A i \in 1..Len(s) :
          \/ s[i] = t[i]
          \/ s[i] \in 65..90 /\ t[i] = s[i] + 32
          \/ t[i] \in 65..90 /\ s[i] = t[i] + 32

\* s is the machine name or the readable name of soil type t, in any case
NamesSoil(s, t) == SameIgnoringCase(s, as_str[t]) \/ SameIgnoringCase(s, ReadableName[t])

\* C11: resolution is case-insensitive and accepts the readable and the machine
\* name: a string that is either name of a soil type, in any case, resolves to
\* that soil type ("Silt Loam", "siltloam", "SILT LOAM" all give SiltLoam).
C11_ReadableAndMachineNames ==
    TryFromReturned =>
        \A t \in SoilType :
            NamesSoil(soil_str, t) => soil_res.k = "Ok" /\ soil_res.v.id = t

\* C12: resolving a string that names no soil type returns an error value, with
\* no soil type in it, whose message is "Unknown soil type: " followed by the
\* string exactly as the caller supplied it.
NamesNoSoil(s) == \A t \in SoilType : ~NamesSoil(s, t)

C12_UnknownSoilIsError ==
    (TryFromReturned /\ NamesNoSoil(soil_str)) =>
        /\ soil_res.k = "Err"
        /\ DOMAIN soil_res = {"k", "e"}
        /\ soil_res.e = UnknownSoilType \o soil_str

C12_Witness ==
    /\ TryFromReturned
    /\ soil_str = Str(<<"C", "l", "a", "y">>)
    /\ NamesNoSoil(soil_str)
    /\ soil_res.k = "Err"
    /\ soil_res.e = UnknownSoilType \o Str(<<"C", "l", "a", "y">>)

(***************************************************************************)
(* Claims about process_file and main (checked under SpecFile).            *)
(***************************************************************************)
ProcessFileReturned == pc = "process_file returned"
MainExited == pc = "main exited"

\* the row fails CSV deserialization or datetime parsing
RowFails(row) ==
    \/ deserialize(row).k = "Err"
    \/ parse_from_str(deserialize(row).v.datetime).k = "Err"

\* some row fails, or the reader rejects it for its number of fields
SomeRowFails(file) ==
    /\ file.k = "file"
    /\ \E i \in 1..Len(file.rows) :
           RowFails(file.rows[i]) \/ Len(file.rows[i]) # Len(file.rows[1])

\* C13: no partial results: if any row fails deserialization or datetime
\* parsing, process_file returns an error and no records, and main leaves
\* output.csv unwritten; main writes to output.csv only when every row
\* succeeded, and a run that ends with exit code 0 leaves the header and one
\* line per row in it.
C13_NoPartialResults ==
    /\ (ProcessFileReturned /\ SomeRowFails(input_file)) =>
           file_out.k = "Err" /\ "v" \notin DOMAIN file_out
    /\ (MainExited /\ SomeRowFails(input_file)) =>
           main_out.output_csv.k = "not written" /\ main_out.exit_code = 1
    /\ (MainExited /\ main_out.output_csv.k # "not written") =>
           /\ input_file.k = "file"
           /\ ~SomeRowFails(input_file)
    /\ (MainExited /\ main_out.exit_code = 0) =>
           /\ main_out.output_csv.k = "written"
           /\ Len(main_out.output_csv.lines) = 1 + Len(input_file.rows)

\* two good rows were processed before the row that fails
C13_Witness ==
    /\ ProcessFileReturned
    /\ file_out.k = "Err"
    /\ input_file.k = "file"
    /\ Len(input_file.rows) = 3
    /\ ~RowFails(input_file.rows[1])
    /\ ~RowFails(input_file.rows[2])
    /\ RowFails(input_file.rows[3])

\* the f64 a numeric field of the file reads as
FieldValue(field) == parse_f64(field).v

\* C20: on success process_file returns one record per input row, in input
\* order; record i has row i's datetime, its raw count and its temperature
\* unchanged and vwc = mc_calc_vwc(raw, temp, soil) for the soil of the call.
C20_OneRecordPerRow ==
    (ProcessFileReturned /\ file_out.k = "Ok") =>
        /\ Len(file_out.v) = Len(input_file.rows)
        /\ \A i \in 1..Len(input_file.rows) :
             /\ file_out.v[i][1] = parse_from_str(input_file.rows[i][2]).v
             /\ file_out.v[i][2] = FieldValue(input_file.rows[i][7])
             /\ file_out.v[i][3] = FieldValue(input_file.rows[i][4])
             /\ file_out.v[i][4] =
                    mc_calc_vwc(FieldValue(input_file.rows[i][7]),
                                FieldValue(input_file.rows[i][4]),
                                try_from(soil_arg).v.id).ret

C20_Witness ==
    /\ ProcessFileReturned
    /\ file_out.k = "Ok"
    /\ Len(file_out.v) = 3
    /\ file_out.v[1] # file_out.v[2]
    /\ file_out.v[1][4] # file_out.v[2][4]

(***************************************************************************)
(* Claims about SoilType::ALL and the machine names (under SpecSoil).      *)
(***************************************************************************)
\* C26: ALL lists exactly 13 pairwise-distinct soil types, each with
\* coefficients and a machine name of its own; resolving the machine name of a
\* soil type s, in any letter case, succeeds with a model whose id is s and
\* whose machine_name is as_str(s).
C26_MachineNamesRoundTrip ==
    /\ Len(ALL) = 13
    /\ \A i, j \in 1..Len(ALL) : ALL[i] = ALL[j] => i = j
    /\ \A i, j \in 1..Len(ALL) : as_str[ALL[i]] = as_str[ALL[j]] => i = j
    /\ \A i \in 1..Len(ALL) : \A c \in 1..3 : IsFinite(coeffs(ALL[i])[c])
    /\ TryFromReturned =>
           \A i \in 1..Len(ALL) :
               SameIgnoringCase(soil_str, as_str[ALL[i]]) =>
                   /\ soil_res.k = "Ok"
                   /\ soil_res.v.id = ALL[i]
                   /\ soil_res.v.machine_name = as_str[ALL[i]]

\* the machine name of LoamySandB in mixed case was resolved
C26_Witness ==
    /\ TryFromReturned
    /\ soil_str = Str(<<"L", "o", "a", "m", "y", "S", "a", "n", "d", "B">>)
    /\ soil_str # as_str["LoamySandB"]
    /\ SameIgnoringCase(soil_str, as_str["LoamySandB"])
    /\ soil_res.k = "Ok"
    /\ soil_res.v.id = "LoamySandB"
    /\ soil_res.v.machine_name = as_str["LoamySandB"]

(***************************************************************************)
(* Further claims about mc_calc_vwc (checked under SpecVwc).               *)
(***************************************************************************)
\* C22: at the reference temperature the correction vanishes: for every soil
\* type and raw value mc_calc_vwc(raw, 24.0, soil) equals
\* mc_calc_vwc(raw, NaN, soil), that is clamp(a*raw^2 + b*raw + c, 0, 1).
C22_ReferenceTempNoCorrection ==
    (Returned /\ temp_value = REF_T) =>
        /\ Same(vwc_out.ret, mc_calc_vwc(raw_value, NaN, soil).ret)
        /\ Same(vwc_out.ret, ClampedQuadratic(soil, raw_value))

\* the uncorrected estimate q(raw) lies in [0, 1] and there is a temperature
EstimateInUnitInterval ==
    /\ Returned
    /\ ~IsNaN(temp_value)
    /\ InUnitInterval(Quadratic(coeffs(soil), raw_value))

\* corrected_raw - raw, and |24 - temp|
Shift == FSub(vwc_out.corrected_raw, raw_value)
Gap == FAbs(FSub(REF_T, temp_value))

\* C23: whenever q(raw) lies in [0, 1], the correction moves the raw count in
\* the direction of (24 - temp): corrected_raw > raw for temp < 24,
\* corrected_raw < raw for temp > 24, and |corrected_raw - raw| lies between
\* 0.64108 * |24 - temp| and 1.911327 * |24 - temp|.
C23_CorrectionDirection ==
    EstimateInUnitInterval =>
        /\ FLt(temp_value, REF_T) => FLt(raw_value, vwc_out.corrected_raw)
        /\ FLt(REF_T, temp_value) => FLt(vwc_out.corrected_raw, raw_value)
        /\ FLe(FMul(WCOR_T, Gap), FAbs(Shift))
        /\ FLe(FAbs(Shift), FMul(ACOR_T, Gap))

\* the slack allowed for the rounding of corrected_raw
ShiftSlack == Dec(1, -6)

\* C23 (amended): the same, for a temperature whose distance from 24 is at
\* least 2^-20 and at most 2^20, and with the two bounds on
\* |corrected_raw - raw| each widened by 1e-6.
C23_CorrectionDirectionAwayFromReference ==
    (EstimateInUnitInterval /\ FLe(Pow2F(-20), Gap) /\ FLe(Gap, Pow2F(20))) =>
        /\ FLt(temp_value, REF_T) => FLt(raw_value, vwc_out.corrected_raw)
        /\ FLt(REF_T, temp_value) => FLt(vwc_out.corrected_raw, raw_value)
        /\ FLe(FSub(FMul(WCOR_T, Gap), ShiftSlack), FAbs(Shift))
        /\ FLe(FAbs(Shift), FAdd(FMul(ACOR_T, Gap), ShiftSlack))

\* a reading 2^-20 degrees below the reference was corrected upwards
C23_Witness ==
    /\ EstimateInUnitInterval
    /\ temp_value = FSub(REF_T, Pow2F(-20))
    /\ FLt(raw_value, vwc_out.corrected_raw)

(***************************************************************************)
(* Further claims about process_file (checked under SpecFile).             *)
(***************************************************************************)
\* records a and b come from rows with the same datetime, raw count and
\* temperature
SameRow(a, b) == a[1] = b[1] /\ a[2] = b[2] /\ a[3] = b[3]

\* C21: the vwc of a row depends only on that row's raw count and temperature
\* and on the soil type: rows that agree in them get the same vwc, within one
\* call and across calls, so processing the rows in another order gives every
\* row the vwc that processing them in sequence gave it.
C21_RowsIndependent ==
    /\ (pc \in {"process_file returned", "process_file returned again"}
          /\ file_out.k = "Ok") =>
           \A i, j \in 1..Len(file_out.v) :
               SameRow(file_out.v[i], file_out.v[j]) => file_out.v[i][4] = file_out.v[j][4]
    /\ pc = "process_file returned again" =>
           /\ file_out.k = "Ok"
           /\ Len(file_out.v) = Len(file_prev.v)
           /\ \A i \in 1..Len(file_out.v) :
                 /\ \E j \in 1..Len(file_prev.v) : SameRow(file_out.v[i], file_prev.v[j])
                 /\ \A j \in 1..Len(file_prev.v) :
                       SameRow(file_out.v[i], file_prev.v[j]) =>
                           file_out.v[i][4] = file_prev.v[j][4]

\* three rows were processed again with the last row first, and two of them
\* differ
C21_Witness ==
    /\ pc = "process_file returned again"
    /\ Len(file_out.v) = 3
    /\ file_out.v[1] = file_prev.v[3]
    /\ file_out.v[1] # file_prev.v[1]
    /\ file_out.v[2] = file_prev.v[1]

(***************************************************************************)
(* Further claims about compute_gas_flux (checked under SpecFlux).         *)
(***************************************************************************)
OtherChamber == pc = "done_other_chamber" /\ flux_out.k = "ok"

SameFits ==
    /\ flux_out.r2_co2 = flux_prev.r2_co2
    /\ flux_out.r2_ch4 = flux_prev.r2_ch4
    /\ flux_out.r2_h2o = flux_prev.r2_h2o

\* only the volume differs from the call before, and it is f times as large
VolumeTimes(f) ==
    /\ chamber_temp_c = chamber_prev.chamber_temp_c
    /\ chamber_pressure_kpa = chamber_prev.chamber_pressure_kpa
    /\ chamber_area_m2 = chamber_prev.chamber_area_m2
    /\ total_volume_m3 = FMul(chamber_prev.total_volume_m3, f)

Factors == {FromInt(2), FromInt(3)}

\* C24: the three R^2 values depend only on the timestamps and the respective
\* concentration series: another temperature series, pressure series, volume
\* or area changes none of them; and multiplying the volume by a factor f
\* multiplies all three fluxes by f.
C24_FitsIgnoreChamber ==
    OtherChamber =>
        /\ SameFits
        /\ \A f \in Factors :
              VolumeTimes(f) =>
                  /\ flux_out.flux_co2_umol_m2_s = FMul(f, flux_prev.flux_co2_umol_m2_s)
                  /\ flux_out.flux_ch4_nmol_m2_s = FMul(f, flux_prev.flux_ch4_nmol_m2_s)
                  /\ flux_out.flux_h2o_umol_m2_s = FMul(f, flux_prev.flux_h2o_umol_m2_s)

\* finite and not subnormal
Sound(v) == IsFinite(v) /\ (IsZero(v) \/ BLen(v.m) = MantBits)

\* a product that is finite, not subnormal, and zero only if a factor is zero
SoundProduct(u, v) ==
    /\ Sound(FMul(u, v))
    /\ IsZero(FMul(u, v)) => (IsZero(u) \/ IsZero(v))

\* the quotients and products on the way from the slopes of result r to its
\* fluxes, for a chamber of volume vol and area area
SoundFluxes(r, vol, area) ==
    /\ Sound(FDiv(vol, area)) /\ ~IsZero(FDiv(vol, area))
    /\ Sound(r.pv_art) /\ ~IsZero(r.pv_art)
    /\ SoundProduct(r.slope_co2, r.pv_art)
    /\ SoundProduct(FMul(r.slope_co2, r.pv_art), Million)
    /\ SoundProduct(r.slope_ch4_raw, Dec(1, -9))
    /\ SoundProduct(FMul(r.slope_ch4_raw, Dec(1, -9)), r.pv_art)
    /\ SoundProduct(FMul(FMul(r.slope_ch4_raw, Dec(1, -9)), r.pv_art), FromInt(1000000000))
    /\ SoundProduct(r.slope_h2o_raw, Dec(1, -3))
    /\ SoundProduct(FMul(r.slope_h2o_raw, Dec(1, -3)), r.pv_art)
    /\ SoundProduct(FMul(FMul(r.slope_h2o_raw, Dec(1, -3)), r.pv_art), Million)

\* |u - v| <= 1e-12 * |v|
RelativelyClose(u, v) == Within(u, v, FMul(Dec(1, -12), FAbs(v)))

\* C24 (amended): the R^2 part as claimed; and multiplying the volume by f
\* multiplies all three fluxes by f to within a relative error of 1e-12,
\* whenever f times the volume and every quotient and product on the way to
\* the fluxes, in both calls, is finite and does not underflow.
C24_FitsIgnoreChamberFluxesScale ==
    OtherChamber =>
        /\ SameFits
        /\ \A f \in Factors :
              (/\ VolumeTimes(f)
               /\ Sound(total_volume_m3)
               /\ SoundFluxes(flux_prev, chamber_prev.total_volume_m3,
                              chamber_prev.chamber_area_m2)
               /\ SoundFluxes(flux_out, total_volume_m3, chamber_area_m2)) =>
                  /\ RelativelyClose(flux_out.flux_co2_umol_m2_s,
                                     FMul(f, flux_prev.flux_co2_umol_m2_s))
                  /\ RelativelyClose(flux_out.flux_ch4_nmol_m2_s,
                                     FMul(f, flux_prev.flux_ch4_nmol_m2_s))
                  /\ RelativelyClose(flux_out.flux_h2o_umol_m2_s,
                                     FMul(f, flux_prev.flux_h2o_umol_m2_s))

\* a chamber of three times the volume gave three non-zero fluxes
C24_Witness ==
    /\ OtherChamber
    /\ VolumeTimes(FromInt(3))
    /\ SoundFluxes(flux_prev, chamber_prev.total_volume_m3, chamber_prev.chamber_area_m2)
    /\ SoundFluxes(flux_out, total_volume_m3, chamber_area_m2)
    /\ ~IsZero(flux_out.flux_co2_umol_m2_s)
    /\ ~IsZero(flux_out.flux_ch4_nmol_m2_s)
    /\ ~IsZero(flux_out.flux_h2o_umol_m2_s)
    /\ FLt(Zero, flux_out.r2_co2)

\* the regression of the unscaled CO2 series [ppm] on the timestamps
UnscaledCo2 == linear_regression(timestamps_s, co2_ppm)

\* C25: scaling the CO2 series by 1e-6 before the regression affects only the
\* slope, not the fit: for every input r2_co2 equals the R^2 of the unscaled
\* ppm series against the same timestamps, and flux_co2 equals (slope of the
\* unscaled series) * K (each to within 1e-6, relative for the flux).
C25_PreScalingKeepsFit ==
    (FluxReturned /\ SameLengths) =>
        /\ Within(flux_out.r2_co2, UnscaledCo2.r2, Dec(1, -6))
        /\ Within(flux_out.flux_co2_umol_m2_s, FMul(UnscaledCo2.slope, K),
                  FMul(Dec(1, -6), FAbs(FMul(UnscaledCo2.slope, K))))

\* at most 1000 timestamps and ppm values of moderate magnitude; the mol/mol
\* series passes the epsilon policy and the ppm series spreads about its mean
\* (S_yy at least 2^-40 * n * (the largest magnitude)^2); K is zero or of
\* magnitude between 2^-100 and 2^100
ModerateCo2 ==
    /\ SameLengths /\ Len(timestamps_s) <= 1000
    /\ Moderate(timestamps_s) /\ Moderate(co2_ppm)
    /\ ~BelowEpsilon(SS(Scale(co2_ppm, Dec(1, -6)), Scale(co2_ppm, Dec(1, -6))))
    /\ Spread(co2_ppm, 40)
    /\ IsZero(K) \/ (FLe(Pow2F(-100), FAbs(K)) /\ FLe(FAbs(K), Pow2F(100)))

\* the scale of the slopes of the ppm series: sqrt(S_yy / S_xx), and 0 where
\* the epsilon policy sets the slope to 0
SlopeScale ==
    IF BelowEpsilon(SS(timestamps_s, timestamps_s)) THEN Zero
    ELSE FSqrt(FDiv(SS(co2_ppm, co2_ppm), SS(timestamps_s, timestamps_s)))

\* C25 (amended): for at most 1000 samples of magnitude at most 2^200 whose
\* mol/mol series has S_yy at least epsilon and whose ppm series has S_yy at
\* least 2^-40 * n * max|ppm|^2, and for K zero or 2^-100 <= |K| <= 2^100,
\* r2_co2 is within 1e-6 of the R^2 of the unscaled ppm series and flux_co2 is
\* within 1e-6 * |K| * sqrt(S_yy / S_xx) of (slope of the unscaled series) * K.
C25_PreScalingKeepsFitOfModerateCo2 ==
    (FluxReturned /\ ModerateCo2) =>
        /\ Within(flux_out.r2_co2, UnscaledCo2.r2, Dec(1, -6))
        /\ Within(flux_out.flux_co2_umol_m2_s, FMul(UnscaledCo2.slope, K),
                  FMul(FMul(Dec(1, -6), FAbs(K)), SlopeScale))

\* three readings rising by 0.1 ppm each second were fitted
C25_Witness ==
    /\ FluxReturned /\ ModerateCo2
    /\ Len(timestamps_s) = 3
    /\ co2_ppm[2] = FAdd(FromInt(400), Dec(1, -1))
    /\ ~IsZero(K)
    /\ ~FEq(flux_out.flux_co2_umol_m2_s, FMul(UnscaledCo2.slope, K))
    /\ FLt(Dec(999, -3), flux_out.r2_co2)
    /\ FLt(Zero, flux_out.flux_co2_umol_m2_s)

====
